---- MODULE Spec2Model ----
(***************************************************************************)
(* A model of the jobqueue client of wr (package jobqueue, client.go):     *)
(* the request/reply transport of a Client, the Touch / Archive / Release  *)
(* / Bury operations built on it, and Client.Execute with its supervisory  *)
(* goroutine and its second touch goroutine.                               *)
(*                                                                         *)
(* Goroutines are processes with a program counter each.  A step of the    *)
(* model is one operation on shared state (a mutex, a channel, the socket, *)
(* the child process) together with the goroutine-local code around it.    *)
(***************************************************************************)
EXTENDS Integers, Sequences, FiniteSets, TLC

\* ------------------------------------------------------------------------
\* Bounds of the model
\* ------------------------------------------------------------------------

\* signals delivered to the process during one Execute
MaxSignals == 1

\* job.Requirements.RAM of the job handed to Execute (MiB)
RequirementsRAM == 0

\* the number of final-state attempts; the program's maxRetries is 300
maxRetries == 2

\* failures of the environment in one run: requests that fail, errors of
\* cmd.Wait, TriggerBehaviours and Unmount
MaxFaults == 1

\* calls each extra caller of the Client makes in SpecClient
MaxCalls == 1

\* calls of BackupDB, one after the other
MaxBackups == 3

\* fs.maxAttempts of the MinFys whose openDir is called
MaxAttempts == 2

\* calls of openDir, one after the other
MaxOpens == 2

\* calls of Reserve and ReserveScheduled on one Client
MaxReserves == 3

\* job.UntilBuried of the job handed to Execute is 1..MaxUntilBuried
MaxUntilBuried == 1

\* job.UntilBuried of the job the callers of SpecRelease share is 1..MaxRetriesLeft
MaxRetriesLeft == 2

\* ------------------------------------------------------------------------
\* Program constants
\* ------------------------------------------------------------------------

FailReasonEnv      == "failed to get environment variables"
FailReasonCwd      == "working directory does not exist"
FailReasonStart    == "command failed to start"
FailReasonCPerm    == "command permission problem"
FailReasonCFound   == "command not found"
FailReasonCExit    == "command invalid exit code"
FailReasonExit     == "command exited non-zero"
FailReasonRAM      == "command used too much RAM"
FailReasonTime     == "command used too much time"
FailReasonAbnormal == "command failed to complete normally"
FailReasonSignal   == "runner received a signal to stop"
FailReasonMount    == "mounting of remote file system(s) failed"
FailReasonUpload   == "failed to upload files to remote file system"
FailReasonKilled   == "killed by user request"

\* WaitStatus.ExitStatus() of a child that was ended by a signal
KilledStatus == -1

\* the exit code reported when the upload of files failed after exit 0
UploadExitcode == -2

\* how a reserve request ends: with a job, with no job when the timeout
\* passed, or with an error
ReserveOutcomes == {"job", "timeout", "error"}

\* the path BackupDB is given
BackupPath == "db"

\* the files BackupDB may touch
BackupFiles == {"db", "db.tmp"}

\* a file that does not exist
NoFile == [v |-> 0, whole |-> TRUE]

\* objects a listing of the remote directory may deliver: the key that is
\* the directory's own name, a file, a sub directory (its key ends in "/")
ObjSelf == [name |-> "", dir |-> FALSE, self |-> TRUE]
ObjFile == [name |-> "f", dir |-> FALSE, self |-> FALSE]
ObjSub == [name |-> "sub", dir |-> TRUE, self |-> FALSE]

\* what the remote directory may hold when openDir is called
Remotes == {<<>>, <<ObjSelf>>, <<ObjFile>>, <<ObjSelf, ObjFile, ObjSub>>}

\* the buffer of the sigs channel
SigsCap == 5

\* the step of the wait between two attempts of the final report, in ms
BackoffStep == 100

\* exit codes a child may end with by itself
ExitCodes == {0, 1, 126, 127, 128}

NoOne == "none"

\* the goroutines of one Execute
ExecProcs == {"main", "sup", "t2"}

\* other goroutines that use the same Client (SpecClient)
Callers == {"c1", "c2", "c3"}

Procs == ExecProcs \cup Callers

\* peakmem > job.Requirements.RAM
\* a limit that no peak is over
MemOverNever(pk) == FALSE

MemOver(pk) == pk > RequirementsRAM

\* the condition under which ticker2's goroutine touches
MayTouch2(kc, rMem, sig) == ~kc /\ ~rMem /\ ~sig

\* the JobEndState an extra caller passes: nil, or one with Exitcode 1
CallerEndStates == {<<>>, <<1>>}

EndStateMethods == {"jarchive", "jrelease", "jbury"}

\* samples currentMemory may return for the child
MemSamples == 0..(RequirementsRAM + 1)

\* stands for currentMemory returning an error
MemErr == -1

\* ru.Maxrss of the child in MB, taken when no sample was recorded
MaxrssSamples == {1}

\* samples currentMemory may return for this process
OurMemSamples == {1}

\* what is taken for this process's memory when currentMemory fails
OurMemFloor == 10

VARIABLES
    \* ---- Client
    reqMutex,       \* holder of the Client's embedded sync.Mutex
    teMutex,        \* holder of Client.teMutex
    inflight,       \* requests sent on the socket whose reply was not received
    rst,            \* per goroutine: where it is inside a Client method
    rm,             \* per goroutine: the Method of the request it is making
    jes,            \* per goroutine: the JobEndState it passed (<<>> for nil, or <<Exitcode>>)
    reason,         \* per goroutine: the failreason it passed
    calls,          \* per extra caller: calls made
    hasReserved,    \* Client.hasReserved
    reserves,       \* the reserve requests made: FirstReserve, SchedulerGroup, outcome
    bpc,            \* where BackupDB is
    bret,           \* what the last BackupDB returned
    backups,        \* calls of BackupDB made
    files,          \* the file system: what path and path.tmp hold
    \* ---- MinFys.openDir
    odpc,           \* where openDir is
    opens,          \* calls of openDir made
    remote,         \* what the remote directory holds during the call
    objectCh,       \* what the listing under way has still to deliver
    attempts,       \* attempts
    backoffs,       \* waits of the call for fs.clientBackoff.Duration()
    entries,        \* entries
    isDir,          \* isDir
    odStatus,       \* status, as returned
    dirContents,    \* fs.dirContents[name]
    fsFiles,        \* the keys of fs.files
    fsDirs,         \* the keys of fs.dirs
    \* ---- Job (the client's copy)
    jobState, jobFailReason, jobExited, jobExitcode, untilBuried,
    \* ---- Execute
    pc,             \* per goroutine: program counter
    reservedByMe, cwdMatters,
    tmpDir, mounted, unmounts, sigOn, sigs, nsig,
    mountErr,       \* the error of the last job.Mount()
    child, status, timeUp,
    tickerOn, tickC, memOn, memC, ticker2On, tick2C,
    stopChecking, stopChecking2,
    stateMutex, ranoutMem, ranoutTime, signalled, killCalled,
    killErr, closeErr, readersClosed,
    peakmem, ourmem, cmerr,
    werr, exitcode, dobury, dorelease, doarchive, failreason, myerr,
    berr, unmountErr, retryNum, waits, worked, ret,
    behaviours,     \* calls of TriggerBehaviours made
    faults,         \* failures of the environment so far
    killedBy,       \* which Kill ended the running child
    sigAfterEndT    \* the last signal was delivered after endT had passed

clientVars == <<reqMutex, teMutex, inflight, rst, rm, jes, reason, calls,
                hasReserved, reserves, bpc, bret, backups, files>>
openDirVars == <<odpc, opens, remote, objectCh, attempts, backoffs, entries, isDir,
                 odStatus, dirContents, fsFiles, fsDirs>>
jobVars == <<jobState, jobFailReason, jobExited, jobExitcode, untilBuried>>
envVars == <<child, status, timeUp, sigs, nsig, tickC, memC, tick2C>>
preVars == <<reservedByMe, cwdMatters, tmpDir, mounted, mountErr, unmounts, sigOn>>
tickerVars == <<tickerOn, memOn, ticker2On, stopChecking, stopChecking2>>
flagVars == <<stateMutex, ranoutMem, ranoutTime, signalled, killCalled,
              killErr, closeErr, readersClosed, peakmem, ourmem, cmerr,
              killedBy, sigAfterEndT>>
classVars == <<werr, exitcode, dobury, dorelease, doarchive, failreason, myerr,
               berr, unmountErr, retryNum, waits, worked, ret, behaviours, faults>>
execVars == <<preVars, tickerVars, flagVars, classVars>>

vars == <<clientVars, jobVars, envVars, execVars, pc, openDirVars>>

\* ------------------------------------------------------------------------
\* sync.Mutex
\* ------------------------------------------------------------------------

\* a mutex whose Lock never waits
CanLockBroken(m) == TRUE

\* Lock() returns only when nobody holds the mutex
CanLock(m) == m = NoOne

\* the request lock on its own, never waiting
ReqCanLockBroken == TRUE

\* c.Lock() at the top of request()
ReqCanLock == CanLock(reqMutex)

\* Unlock by p (a deferred Unlock of a mutex p does not hold never happens)
Unlocked(m, p) == IF m = p THEN NoOne ELSE m

\* ------------------------------------------------------------------------
\* Helpers
\* ------------------------------------------------------------------------

\* p enters a Client method that makes request `method`; `first` is where the
\* method begins: "ended" (Archive, Release, Bury), "wantTE" (Touch),
\* "wantReq" (Ping, Started: request() alone)
Enter(p, method, first, j, why) ==
    /\ rst' = [rst EXCEPT ![p] = first]
    /\ rm' = [rm EXCEPT ![p] = method]
    /\ jes' = [jes EXCEPT ![p] = j]
    /\ reason' = [reason EXCEPT ![p] = why]

\* Archive, Release or Bury: ended() returns at once for a nil JobEndState
EnterEndState(p, method, j, why) ==
    Enter(p, method, IF j = <<>> THEN "wantTE" ELSE "ended", j, why)

\* the Client method p called has returned; what the call passed is dead
Leave(p) ==
    /\ rst' = [rst EXCEPT ![p] = "idle"]
    /\ rm' = [rm EXCEPT ![p] = "none"]
    /\ jes' = [jes EXCEPT ![p] = <<>>]
    /\ reason' = [reason EXCEPT ![p] = ""]

Goto(p, l) == pc' = [pc EXCEPT ![p] = l]

\* cmd.Process.Kill(): SIGKILL ends a running child; a child that has exited
\* and was not yet waited for is not affected
Kill(who) ==
    /\ child' = IF child = "running" THEN "exited" ELSE child
    /\ status' = IF child = "running" THEN KilledStatus ELSE status
    /\ killedBy' = IF child = "running" THEN who ELSE killedBy

\* Kill returns an error once Wait has returned ("process already finished")
KillError == child = "reaped"

\* Close of a pipe reader returns an error once Wait has closed it
CloseError == child = "reaped"

\* a return that leaves the signals subscribed
ReturnSubscribed(r, tmpDeferred) ==
    /\ pc' = [pc EXCEPT !["main"] = "returned"]
    /\ ret' = r
    /\ stateMutex' = Unlocked(stateMutex, "main")
    /\ sigOn' = sigOn
    /\ tmpDir' = IF tmpDeferred /\ tmpDir = "made" THEN "removed" ELSE tmpDir

\* Execute returns r; its deferred calls run: stateMutex.Unlock(),
\* signal.Stop(sigs) and, when registered, the removal of the tmp dir
Return(r, tmpDeferred) ==
    /\ pc' = [pc EXCEPT !["main"] = "returned"]
    /\ ret' = r
    /\ stateMutex' = Unlocked(stateMutex, "main")
    /\ sigOn' = FALSE
    /\ tmpDir' = IF tmpDeferred /\ tmpDir = "made" THEN "removed" ELSE tmpDir

\* a classification: the exit code and what to do with the job
Class(code, bury, release, archive, why) ==
    [exitcode |-> code, dobury |-> bury, dorelease |-> release,
     doarchive |-> archive, failreason |-> why]

\* the failreason of an exit status that is not 0, 126, 127 or 128, ignoring
\* ranoutTime
FlagReasonNoTime(rMem, rTime, sig, kc) ==
    IF rMem THEN FailReasonRAM
    ELSE IF sig THEN FailReasonSignal
    ELSE IF kc THEN FailReasonKilled
    ELSE FailReasonExit

\* the same, ignoring ranoutMem
FlagReasonNoRAM(rMem, rTime, sig, kc) ==
    IF sig THEN (IF rTime THEN FailReasonTime ELSE FailReasonSignal)
    ELSE IF kc THEN FailReasonKilled
    ELSE FailReasonExit

\* the failreason of an exit status that is not 0, 126, 127 or 128: the
\* if / else-if chain over the flags
FlagReason(rMem, rTime, sig, kc) ==
    IF rMem THEN FailReasonRAM
    ELSE IF sig THEN (IF rTime THEN FailReasonTime ELSE FailReasonSignal)
    ELSE IF kc THEN FailReasonKilled
    ELSE FailReasonExit

\* the outcome classification as Execute computes it from the error of
\* cmd.Wait(), the exit status and the four flags
Classify(we, st, rMem, rTime, sig, kc) ==
    IF we # "nil"
      THEN IF we = "exit"
             THEN CASE st = 126 -> Class(st, TRUE, FALSE, FALSE, FailReasonCPerm)
                    [] st = 127 -> Class(st, TRUE, FALSE, FALSE, FailReasonCFound)
                    [] st = 128 -> Class(st, TRUE, FALSE, FALSE, FailReasonCExit)
                    [] OTHER -> Class(st, FlagReason(rMem, rTime, sig, kc) = FailReasonKilled,
                                      TRUE, FALSE, FlagReason(rMem, rTime, sig, kc))
             ELSE Class(255, FALSE, TRUE, FALSE, FailReasonAbnormal)
      ELSE Class(st, FALSE, FALSE, TRUE, "")

\* any error of Unmount taken for an upload failure
UploadFailedAny(u) == u # "nil"

\* strings.Contains(unmountErr.Error(), "failed to upload")
UploadFailed(u) == u = "upload"

\* an upload failure that always overwrites the failreason
UploadReasonAlways(why) == FailReasonUpload

\* if failreason == "" { failreason = FailReasonUpload }
UploadReason(why) == IF why = "" THEN FailReasonUpload ELSE why

SetClass(c) ==
    /\ exitcode' = c.exitcode
    /\ dobury' = c.dobury
    /\ dorelease' = c.dorelease
    /\ doarchive' = c.doarchive
    /\ failreason' = c.failreason
    /\ myerr' = ~c.doarchive

\* a retry loop that asks for release before it asks for bury
MethodReleaseFirst(b, r, a) ==
    IF r THEN "jrelease" ELSE IF b THEN "jbury" ELSE IF a THEN "jarchive" ELSE "none"

\* the operation the retry loop calls for the disposition
Method(b, r, a) ==
    IF b THEN "jbury" ELSE IF r THEN "jrelease" ELSE IF a THEN "jarchive" ELSE "none"


\* ------------------------------------------------------------------------
\* What each goroutine does when the Client method it called returns
\* ------------------------------------------------------------------------

\* a wait that is the same after every failed attempt
BackoffFlat(k) == BackoffStep

\* <-time.After(time.Duration(retryNum*100) * time.Millisecond), in ms
Backoff(k) == k * BackoffStep

\* a loop that ends after its first failed attempt
LoopDoneEarly(n) == n >= 1

\* for retryNum := 0; retryNum < maxRetries; retryNum++ : the loop ends
LoopDone(n) == ~(n < maxRetries)

\* Execute's main goroutine, after Bury (cwd, mount, env), Release (start),
\* Started, or an attempt of the retry loop
ExecuteResumed(err) ==
    /\ Leave("main")
    /\ CASE pc["main"] = "buried" ->
              /\ Return("error", FALSE)
              /\ UNCHANGED <<unmounts, retryNum, waits, worked>>
         [] pc["main"] = "envBuried" ->
              /\ unmounts' = Append(unmounts, TRUE)
              /\ Return("error", FALSE)
              /\ UNCHANGED <<retryNum, waits, worked>>
         [] pc["main"] = "startReleased" ->
              /\ unmounts' = Append(unmounts, TRUE)
              /\ Return("error", TRUE)
              /\ UNCHANGED <<retryNum, waits, worked>>
         [] pc["main"] = "starting" ->
              /\ Goto("main", IF err THEN "startedFailed" ELSE "spawn")
              /\ UNCHANGED <<unmounts, retryNum, waits, worked, ret, stateMutex, sigOn, tmpDir>>
         [] pc["main"] = "reporting" ->
              IF err
                THEN /\ waits' = Append(waits, Backoff(retryNum))
                     /\ retryNum' = retryNum + 1
                     /\ Goto("main", "report")
                     /\ UNCHANGED <<unmounts, worked, ret, stateMutex, sigOn, tmpDir>>
                ELSE /\ worked' = TRUE
                     /\ Return(IF myerr THEN "error" ELSE "nil", TRUE)
                     /\ UNCHANGED <<unmounts, retryNum, waits>>
    /\ UNCHANGED <<child, status, killedBy, killErr>>

\* a supervisor that also kills the child once it has seen the time run out
SupTouchedKillsOverrun(kc) ==
    /\ Leave("sup")
    /\ IF kc \/ ranoutTime
         THEN /\ Kill("touch")
              /\ killErr' = KillError
              /\ Goto("sup", IF kc THEN "kcLatch" ELSE "select")
         ELSE /\ Goto("sup", "select")
              /\ UNCHANGED <<child, status, killedBy, killErr>>
    /\ UNCHANGED <<unmounts, retryNum, waits, worked, ret, stateMutex, sigOn, tmpDir>>

\* a supervisor that returns after a Touch without a kill request
SupTouchedEnds(kc) ==
    /\ Leave("sup")
    /\ IF kc
         THEN /\ Kill("touch")
              /\ killErr' = KillError
              /\ Goto("sup", "kcLatch")
         ELSE /\ Goto("sup", "done")
              /\ UNCHANGED <<child, status, killedBy, killErr>>
    /\ UNCHANGED <<unmounts, retryNum, waits, worked, ret, stateMutex, sigOn, tmpDir>>

\* the supervisory goroutine after Touch: on a kill request
\* killErr = cmd.Process.Kill(); otherwise (also on an error) select again
SupTouched(kc) ==
    /\ Leave("sup")
    /\ IF kc
         THEN /\ Kill("touch")
              /\ killErr' = KillError
              /\ Goto("sup", "kcLatch")
         ELSE /\ Goto("sup", "select")
              /\ UNCHANGED <<child, status, killedBy, killErr>>
    /\ UNCHANGED <<unmounts, retryNum, waits, worked, ret, stateMutex, sigOn, tmpDir>>

\* a ticker2 goroutine that selects again after a Touch that failed
T2TouchedGoesOn(err) ==
    /\ Leave("t2")
    /\ Goto("t2", "select")
    /\ UNCHANGED <<child, status, killedBy, killErr,
                   unmounts, retryNum, waits, worked, ret, stateMutex, sigOn, tmpDir>>

\* ticker2's goroutine after Touch: return on an error
T2Touched(err) ==
    /\ Leave("t2")
    /\ Goto("t2", IF err THEN "done" ELSE "select")
    /\ UNCHANGED <<child, status, killedBy, killErr,
                   unmounts, retryNum, waits, worked, ret, stateMutex, sigOn, tmpDir>>

\* another caller of the Client
CallerReturned(p) ==
    /\ Leave(p)
    /\ UNCHANGED <<pc, child, status, killedBy, killErr,
                   unmounts, retryNum, waits, worked, ret, stateMutex, sigOn, tmpDir>>

Resume(p, err, kc) ==
    CASE p = "main" -> ExecuteResumed(err)
      [] p = "sup" -> SupTouched(kc)
      [] p = "t2" -> T2Touched(err)
      [] OTHER -> CallerReturned(p)

\* ------------------------------------------------------------------------
\* Client methods: Touch, ended, Archive, Release, Bury, request
\* ------------------------------------------------------------------------

\* what a failing request of p takes from the budget of failures: an attempt
\* of Execute's retry loop takes nothing, the loop has its own bound
Fault(p) == IF p = "main" /\ pc["main"] = "reporting" THEN 0 ELSE 1

\* a reply that takes a retry from the job whatever the method and the job
UntilBuriedAfterAny(method) == untilBuried - 1

\* a reply that always leaves the job delayed
StateAfterDelays(method) == "delayed"

\* what a successful Archive, Release or Bury does to the client's copy of the job
UntilBuriedAfter(method) ==
    IF method = "jrelease" /\ jobExited /\ jobExitcode # 0
      THEN untilBuried - 1 ELSE untilBuried

\* a reply that leaves job.State as it is
StateAfterStays(method) == jobState

StateAfter(method) ==
    CASE method = "jarchive" -> "complete"
      [] method = "jbury" -> "buried"
      [] method = "jrelease" ->
            IF UntilBuriedAfter(method) <= 0 THEN "buried" ELSE "delayed"
      [] OTHER -> jobState

\* an ended() that returns with teMutex still locked
EndedKeepsTE(p) ==
    /\ rst[p] = "ended"
    /\ CanLock(teMutex)
    /\ teMutex' = p
    /\ jobExited' = TRUE
    /\ jobExitcode' = jes[p][1]
    /\ rst' = [rst EXCEPT ![p] = "wantTE"]
    /\ UNCHANGED <<reqMutex, inflight, rm, jes, reason, calls, jobState, jobFailReason,
                   untilBuried, pc, reservedByMe, cwdMatters, tmpDir, mounted,
                   unmounts, sigOn, sigs, nsig, child, status, timeUp, tickerOn, tickC,
                   memOn, memC, ticker2On, tick2C, stopChecking, stopChecking2,
                   stateMutex, ranoutMem, ranoutTime, signalled, killCalled, killErr,
                   closeErr, readersClosed, peakmem, werr, exitcode, dobury, dorelease,
                   doarchive, failreason, myerr, berr, unmountErr, retryNum, waits,
                   worked, ret, behaviours, faults, killedBy, sigAfterEndT,
                   hasReserved, reserves, ourmem, cmerr, bpc, bret, backups, files,
                   mountErr, odpc, opens, remote, objectCh, attempts, backoffs,
                   entries, isDir, odStatus, dirContents, fsFiles, fsDirs>>

\* ended() with a JobEndState: under teMutex the job takes its Exited and
\* Exitcode
Ended(p) ==
    /\ rst[p] = "ended"
    /\ CanLock(teMutex)
    /\ jobExited' = TRUE
    /\ jobExitcode' = jes[p][1]
    /\ rst' = [rst EXCEPT ![p] = "wantTE"]
    /\ UNCHANGED <<reqMutex, teMutex, inflight, rm, jes, reason, calls, jobState,
                   jobFailReason, untilBuried, pc, reservedByMe, cwdMatters, tmpDir,
                   mounted, unmounts, sigOn, sigs, nsig, child, status, timeUp,
                   tickerOn, tickC, memOn, memC, ticker2On, tick2C, stopChecking,
                   stopChecking2, stateMutex, ranoutMem, ranoutTime, signalled,
                   killCalled, killErr, closeErr, readersClosed, peakmem, werr,
                   exitcode, dobury, dorelease, doarchive, failreason, myerr, berr,
                   unmountErr, retryNum, waits, worked, ret, behaviours, faults,
                   killedBy, sigAfterEndT, hasReserved, reserves, ourmem, cmerr, bpc,
                   bret, backups, files, mountErr, odpc, opens, remote, objectCh,
                   attempts, backoffs, entries, isDir, odStatus, dirContents, fsFiles,
                   fsDirs>>

\* c.teMutex.Lock() of Touch, Archive, Release and Bury; Release and Bury then
\* set job.FailReason
LockTE(p) ==
    /\ rst[p] = "wantTE"
    /\ CanLock(teMutex)
    /\ teMutex' = p
    /\ jobFailReason' = IF rm[p] \in {"jrelease", "jbury"} THEN reason[p] ELSE jobFailReason
    /\ rst' = [rst EXCEPT ![p] = "wantReq"]
    /\ UNCHANGED <<reqMutex, inflight, rm, jes, reason, calls, jobState, jobExited,
                   jobExitcode, untilBuried, pc, reservedByMe, cwdMatters, tmpDir,
                   mounted, unmounts, sigOn, sigs, nsig, child, status, timeUp,
                   tickerOn, tickC, memOn, memC, ticker2On, tick2C, stopChecking,
                   stopChecking2, stateMutex, ranoutMem, ranoutTime, signalled,
                   killCalled, killErr, closeErr, readersClosed, peakmem, werr,
                   exitcode, dobury, dorelease, doarchive, failreason, myerr, berr,
                   unmountErr, retryNum, waits, worked, ret, behaviours, faults,
                   killedBy, sigAfterEndT, hasReserved, reserves, ourmem, cmerr, bpc,
                   bret, backups, files, mountErr, odpc, opens, remote, objectCh,
                   attempts, backoffs, entries, isDir, odStatus, dirContents, fsFiles,
                   fsDirs>>

\* request(): c.Lock(), encode, c.sock.Send()
SendReq(p) ==
    /\ rst[p] = "wantReq"
    /\ ReqCanLock
    /\ reqMutex' = p
    /\ inflight' = Append(inflight, [from |-> p, m |-> rm[p]])
    /\ rst' = [rst EXCEPT ![p] = "sent"]
    /\ UNCHANGED <<teMutex, rm, jes, reason, calls, jobState, jobFailReason, jobExited,
                   jobExitcode, untilBuried, pc, reservedByMe, cwdMatters, tmpDir,
                   mounted, unmounts, sigOn, sigs, nsig, child, status, timeUp,
                   tickerOn, tickC, memOn, memC, ticker2On, tick2C, stopChecking,
                   stopChecking2, stateMutex, ranoutMem, ranoutTime, signalled,
                   killCalled, killErr, closeErr, readersClosed, peakmem, werr,
                   exitcode, dobury, dorelease, doarchive, failreason, myerr, berr,
                   unmountErr, retryNum, waits, worked, ret, behaviours, faults,
                   killedBy, sigAfterEndT, hasReserved, reserves, ourmem, cmerr, bpc,
                   bret, backups, files, mountErr, odpc, opens, remote, objectCh,
                   attempts, backoffs, entries, isDir, odStatus, dirContents, fsFiles,
                   fsDirs>>

\* request(): c.Lock(), but encoding or sending fails: request returns the
\* error and so does the method that called it (the deferred Unlocks run)
SendFails(p) ==
    /\ rst[p] = "wantReq"
    /\ ReqCanLock
    /\ faults + Fault(p) <= MaxFaults
    /\ faults' = faults + Fault(p)
    /\ teMutex' = Unlocked(teMutex, p)
    /\ Resume(p, TRUE, FALSE)
    /\ UNCHANGED <<reqMutex, inflight, calls, jobState, jobFailReason, jobExited,
                   jobExitcode, untilBuried, reservedByMe, cwdMatters, mounted, sigs,
                   nsig, timeUp, tickerOn, tickC, memOn, memC, ticker2On, tick2C,
                   stopChecking, stopChecking2, ranoutMem, ranoutTime, signalled,
                   killCalled, closeErr, readersClosed, peakmem, werr, exitcode,
                   dobury, dorelease, doarchive, failreason, myerr, berr, unmountErr,
                   behaviours, sigAfterEndT, hasReserved, reserves, ourmem, cmerr, bpc,
                   bret, backups, files, mountErr, odpc, opens, remote, objectCh,
                   attempts, backoffs, entries, isDir, odStatus, dirContents, fsFiles,
                   fsDirs>>

\* a reply after which Archive, Release and Bury update the job also when
\* the request failed
RecvReplyAlwaysUpdates(p) ==
    /\ rst[p] = "sent"
    /\ inflight # <<>>
    /\ inflight' = Tail(inflight)
    /\ reqMutex' = Unlocked(reqMutex, p)
    /\ teMutex' = Unlocked(teMutex, p)
    /\ \E ok \in BOOLEAN, kc \in BOOLEAN :
         /\ kc => (ok /\ rm[p] = "jtouch")
         /\ ~ok => faults + Fault(p) <= MaxFaults
         /\ faults' = IF ok THEN faults ELSE faults + Fault(p)
         /\ IF rm[p] \in EndStateMethods
              THEN /\ jobState' = StateAfter(rm[p])
                   /\ untilBuried' = UntilBuriedAfter(rm[p])
              ELSE UNCHANGED <<jobState, untilBuried>>
         /\ Resume(p, ~ok, kc)
    /\ UNCHANGED <<calls, jobFailReason, jobExited, jobExitcode, reservedByMe,
                   cwdMatters, mounted, sigs, nsig, timeUp, tickerOn, tickC, memOn,
                   memC, ticker2On, tick2C, stopChecking, stopChecking2, ranoutMem,
                   ranoutTime, signalled, killCalled, closeErr, readersClosed, peakmem,
                   werr, exitcode, dobury, dorelease, doarchive, failreason, myerr,
                   berr, unmountErr, behaviours, sigAfterEndT, hasReserved, reserves,
                   ourmem, cmerr, bpc, bret, backups, files, mountErr, odpc, opens,
                   remote, objectCh, attempts, backoffs, entries, isDir, odStatus,
                   dirContents, fsFiles, fsDirs>>

\* request(): c.sock.Recv() takes the next reply off the socket; it is decoded
\* and the server's error string becomes the error; c.Unlock(). Then the rest
\* of the calling method: Touch returns resp.KillCalled, Archive, Release and
\* Bury update the job's State when there was no error; teMutex is unlocked.
RecvReply(p) ==
    /\ rst[p] = "sent"
    /\ inflight # <<>>
    /\ inflight' = Tail(inflight)
    /\ reqMutex' = Unlocked(reqMutex, p)
    /\ teMutex' = Unlocked(teMutex, p)
    /\ \E ok \in BOOLEAN, kc \in BOOLEAN :
         /\ kc => (ok /\ rm[p] = "jtouch")
         /\ ~ok => faults + Fault(p) <= MaxFaults
         /\ faults' = IF ok THEN faults ELSE faults + Fault(p)
         /\ IF ok /\ rm[p] \in EndStateMethods
              THEN /\ jobState' = StateAfter(rm[p])
                   /\ untilBuried' = UntilBuriedAfter(rm[p])
              ELSE UNCHANGED <<jobState, untilBuried>>
         /\ Resume(p, ~ok, kc)
    /\ UNCHANGED <<calls, jobFailReason, jobExited, jobExitcode, reservedByMe,
                   cwdMatters, mounted, sigs, nsig, timeUp, tickerOn, tickC, memOn,
                   memC, ticker2On, tick2C, stopChecking, stopChecking2, ranoutMem,
                   ranoutTime, signalled, killCalled, closeErr, readersClosed, peakmem,
                   werr, exitcode, dobury, dorelease, doarchive, failreason, myerr,
                   berr, unmountErr, behaviours, sigAfterEndT, hasReserved, reserves,
                   ourmem, cmerr, bpc, bret, backups, files, mountErr, odpc, opens,
                   remote, objectCh, attempts, backoffs, entries, isDir, odStatus,
                   dirContents, fsFiles, fsDirs>>

\* ------------------------------------------------------------------------
\* Other goroutines calling methods of the same Client
\* ------------------------------------------------------------------------

\* Ping (request alone), Touch, or Archive / Release / Bury with or without
\* a JobEndState
CallerCall(p) ==
    /\ rst[p] = "idle"
    /\ calls[p] < MaxCalls
    /\ calls' = [calls EXCEPT ![p] = @ + 1]
    /\ \/ Enter(p, "ping", "wantReq", <<>>, "")
       \/ Enter(p, "jtouch", "wantTE", <<>>, "")
       \/ \E j \in CallerEndStates : EnterEndState(p, "jarchive", j, "")
       \/ \E j \in CallerEndStates : EnterEndState(p, "jrelease", j, FailReasonExit)
       \/ \E j \in CallerEndStates : EnterEndState(p, "jbury", j, FailReasonKilled)
    /\ UNCHANGED <<reqMutex, teMutex, inflight, jobState, jobFailReason, jobExited,
                   jobExitcode, untilBuried, pc, reservedByMe, cwdMatters, tmpDir,
                   mounted, unmounts, sigOn, sigs, nsig, child, status, timeUp,
                   tickerOn, tickC, memOn, memC, ticker2On, tick2C, stopChecking,
                   stopChecking2, stateMutex, ranoutMem, ranoutTime, signalled,
                   killCalled, killErr, closeErr, readersClosed, peakmem, werr,
                   exitcode, dobury, dorelease, doarchive, failreason, myerr, berr,
                   unmountErr, retryNum, waits, worked, ret, behaviours, faults,
                   killedBy, sigAfterEndT, hasReserved, reserves, ourmem, cmerr, bpc,
                   bret, backups, files, mountErr, odpc, opens, remote, objectCh,
                   attempts, backoffs, entries, isDir, odStatus, dirContents, fsFiles,
                   fsDirs>>

\* ------------------------------------------------------------------------
\* Execute: the main goroutine
\* ------------------------------------------------------------------------

\* a check that lets every client through
MustReserveNever(mine) == FALSE

\* !uuid.Equal(c.clientid, job.ReservedBy)
MustReserve(mine) == ~mine

\* the check that this client reserved the job
ExecuteReserved ==
    /\ pc["main"] = "begin"
    /\ IF ~MustReserve(reservedByMe)
         THEN /\ Goto("main", "cwd")
              /\ UNCHANGED <<ret, stateMutex, sigOn, tmpDir>>
         ELSE Return("ErrMustReserve", FALSE)
    /\ UNCHANGED <<reqMutex, teMutex, inflight, rst, rm, jes, reason, calls, jobState,
                   jobFailReason, jobExited, jobExitcode, untilBuried, reservedByMe,
                   cwdMatters, mounted, unmounts, sigs, nsig, child, status, timeUp,
                   tickerOn, tickC, memOn, memC, ticker2On, tick2C, stopChecking,
                   stopChecking2, ranoutMem, ranoutTime, signalled, killCalled,
                   killErr, closeErr, readersClosed, peakmem, werr, exitcode, dobury,
                   dorelease, doarchive, failreason, myerr, berr, unmountErr, retryNum,
                   waits, worked, behaviours, faults, killedBy, sigAfterEndT,
                   hasReserved, reserves, ourmem, cmerr, bpc, bret, backups, files,
                   mountErr, odpc, opens, remote, objectCh, attempts, backoffs,
                   entries, isDir, odStatus, dirContents, fsFiles, fsDirs>>

\* os.Stat(job.Cwd): bury the job when it is no directory
ExecuteStatCwd ==
    /\ pc["main"] = "cwd"
    /\ \E ok \in BOOLEAN :
         IF ok
           THEN /\ Goto("main", IF cwdMatters THEN "mount" ELSE "mkdir")
                /\ UNCHANGED <<rst, rm, jes, reason>>
           ELSE /\ EnterEndState("main", "jbury", <<>>, FailReasonCwd)
                /\ Goto("main", "buried")
    /\ UNCHANGED <<reqMutex, teMutex, inflight, calls, jobState, jobFailReason,
                   jobExited, jobExitcode, untilBuried, reservedByMe, cwdMatters,
                   tmpDir, mounted, unmounts, sigOn, sigs, nsig, child, status, timeUp,
                   tickerOn, tickC, memOn, memC, ticker2On, tick2C, stopChecking,
                   stopChecking2, stateMutex, ranoutMem, ranoutTime, signalled,
                   killCalled, killErr, closeErr, readersClosed, peakmem, werr,
                   exitcode, dobury, dorelease, doarchive, failreason, myerr, berr,
                   unmountErr, retryNum, waits, worked, ret, behaviours, faults,
                   killedBy, sigAfterEndT, hasReserved, reserves, ourmem, cmerr, bpc,
                   bret, backups, files, mountErr, odpc, opens, remote, objectCh,
                   attempts, backoffs, entries, isDir, odStatus, dirContents, fsFiles,
                   fsDirs>>

\* mkHashedDir: the unique working directory and its tmp sister
ExecuteMkHashedDir ==
    /\ pc["main"] = "mkdir"
    /\ \E ok \in BOOLEAN :
         IF ok
           THEN /\ tmpDir' = "made"
                /\ Goto("main", "mount")
                /\ UNCHANGED <<rst, rm, jes, reason>>
           ELSE /\ EnterEndState("main", "jbury", <<>>, FailReasonCwd)
                /\ Goto("main", "buried")
                /\ UNCHANGED tmpDir
    /\ UNCHANGED <<reqMutex, teMutex, inflight, calls, jobState, jobFailReason,
                   jobExited, jobExitcode, untilBuried, reservedByMe, cwdMatters,
                   mounted, unmounts, sigOn, sigs, nsig, child, status, timeUp,
                   tickerOn, tickC, memOn, memC, ticker2On, tick2C, stopChecking,
                   stopChecking2, stateMutex, ranoutMem, ranoutTime, signalled,
                   killCalled, killErr, closeErr, readersClosed, peakmem, werr,
                   exitcode, dobury, dorelease, doarchive, failreason, myerr, berr,
                   unmountErr, retryNum, waits, worked, ret, behaviours, faults,
                   killedBy, sigAfterEndT, hasReserved, reserves, ourmem, cmerr, bpc,
                   bret, backups, files, mountErr, odpc, opens, remote, objectCh,
                   attempts, backoffs, entries, isDir, odStatus, dirContents, fsFiles,
                   fsDirs>>

\* a Mount that is called again after whatever error
MountAgainAlways(r) == r # "nil"

\* strings.Contains(err.Error(), "fusermount exited with code 256")
MountAgain(r) == r = "fuse256"

\* job.Mount()
ExecuteMount ==
    /\ pc["main"] = "mount"
    /\ \E r \in {"nil", "fuse256", "err"} :
         /\ mounted' = (r = "nil")
         /\ mountErr' = r
         /\ CASE r = "nil" -> /\ Goto("main", "env")
                              /\ UNCHANGED <<rst, rm, jes, reason>>
              [] MountAgain(r) -> /\ Goto("main", "mount2")
                                  /\ UNCHANGED <<rst, rm, jes, reason>>
              [] OTHER -> /\ EnterEndState("main", "jbury", <<>>, FailReasonMount)
                          /\ Goto("main", "buried")
    /\ UNCHANGED <<reqMutex, teMutex, inflight, calls, jobState, jobFailReason,
                   jobExited, jobExitcode, untilBuried, reservedByMe, cwdMatters,
                   tmpDir, unmounts, sigOn, sigs, nsig, child, status, timeUp,
                   tickerOn, tickC, memOn, memC, ticker2On, tick2C, stopChecking,
                   stopChecking2, stateMutex, ranoutMem, ranoutTime, signalled,
                   killCalled, killErr, closeErr, readersClosed, peakmem, werr,
                   exitcode, dobury, dorelease, doarchive, failreason, myerr, berr,
                   unmountErr, retryNum, waits, worked, ret, behaviours, faults,
                   killedBy, sigAfterEndT, hasReserved, reserves, ourmem, cmerr, bpc,
                   bret, backups, files, odpc, opens, remote, objectCh, attempts,
                   backoffs, entries, isDir, odStatus, dirContents, fsFiles, fsDirs>>

\* the second job.Mount(), 5 s after "fusermount exited with code 256"
ExecuteMountAgain ==
    /\ pc["main"] = "mount2"
    /\ \E r \in {"nil", "fuse256", "err"} :
         /\ mounted' = (r = "nil")
         /\ mountErr' = r
         /\ IF r = "nil"
              THEN /\ Goto("main", "env")
                   /\ UNCHANGED <<rst, rm, jes, reason>>
              ELSE /\ EnterEndState("main", "jbury", <<>>, FailReasonMount)
                   /\ Goto("main", "buried")
    /\ UNCHANGED <<reqMutex, teMutex, inflight, calls, jobState, jobFailReason,
                   jobExited, jobExitcode, untilBuried, reservedByMe, cwdMatters,
                   tmpDir, unmounts, sigOn, sigs, nsig, child, status, timeUp,
                   tickerOn, tickC, memOn, memC, ticker2On, tick2C, stopChecking,
                   stopChecking2, stateMutex, ranoutMem, ranoutTime, signalled,
                   killCalled, killErr, closeErr, readersClosed, peakmem, werr,
                   exitcode, dobury, dorelease, doarchive, failreason, myerr, berr,
                   unmountErr, retryNum, waits, worked, ret, behaviours, faults,
                   killedBy, sigAfterEndT, hasReserved, reserves, ourmem, cmerr, bpc,
                   bret, backups, files, odpc, opens, remote, objectCh, attempts,
                   backoffs, entries, isDir, odStatus, dirContents, fsFiles, fsDirs>>

\* job.Env(): on failure bury the job
ExecuteEnv ==
    /\ pc["main"] = "env"
    /\ \E ok \in BOOLEAN :
         IF ok
           THEN /\ Goto("main", "notify")
                /\ UNCHANGED <<rst, rm, jes, reason>>
           ELSE /\ EnterEndState("main", "jbury", <<>>, FailReasonEnv)
                /\ Goto("main", "envBuried")
    /\ UNCHANGED <<reqMutex, teMutex, inflight, calls, jobState, jobFailReason,
                   jobExited, jobExitcode, untilBuried, reservedByMe, cwdMatters,
                   tmpDir, mounted, unmounts, sigOn, sigs, nsig, child, status, timeUp,
                   tickerOn, tickC, memOn, memC, ticker2On, tick2C, stopChecking,
                   stopChecking2, stateMutex, ranoutMem, ranoutTime, signalled,
                   killCalled, killErr, closeErr, readersClosed, peakmem, werr,
                   exitcode, dobury, dorelease, doarchive, failreason, myerr, berr,
                   unmountErr, retryNum, waits, worked, ret, behaviours, faults,
                   killedBy, sigAfterEndT, hasReserved, reserves, ourmem, cmerr, bpc,
                   bret, backups, files, mountErr, odpc, opens, remote, objectCh,
                   attempts, backoffs, entries, isDir, odStatus, dirContents, fsFiles,
                   fsDirs>>

\* signal.Notify(sigs, ...), defer signal.Stop(sigs)
ExecuteNotify ==
    /\ pc["main"] = "notify"
    /\ sigOn' = TRUE
    /\ Goto("main", "start")
    /\ UNCHANGED <<reqMutex, teMutex, inflight, rst, rm, jes, reason, calls, jobState,
                   jobFailReason, jobExited, jobExitcode, untilBuried, reservedByMe,
                   cwdMatters, tmpDir, mounted, unmounts, sigs, nsig, child, status,
                   timeUp, tickerOn, tickC, memOn, memC, ticker2On, tick2C,
                   stopChecking, stopChecking2, stateMutex, ranoutMem, ranoutTime,
                   signalled, killCalled, killErr, closeErr, readersClosed, peakmem,
                   werr, exitcode, dobury, dorelease, doarchive, failreason, myerr,
                   berr, unmountErr, retryNum, waits, worked, ret, behaviours, faults,
                   killedBy, sigAfterEndT, hasReserved, reserves, ourmem, cmerr, bpc,
                   bret, backups, files, mountErr, odpc, opens, remote, objectCh,
                   attempts, backoffs, entries, isDir, odStatus, dirContents, fsFiles,
                   fsDirs>>

\* endT := now + Requirements.Time; cmd.Start(); on failure Release the job
ExecuteStart ==
    /\ pc["main"] = "start"
    /\ \E ok \in BOOLEAN :
         IF ok
           THEN /\ child' = "running"
                /\ Goto("main", "callStarted")
                /\ UNCHANGED <<rst, rm, jes, reason>>
           ELSE /\ EnterEndState("main", "jrelease", <<>>, FailReasonStart)
                /\ Goto("main", "startReleased")
                /\ UNCHANGED child
    /\ UNCHANGED <<reqMutex, teMutex, inflight, calls, jobState, jobFailReason,
                   jobExited, jobExitcode, untilBuried, reservedByMe, cwdMatters,
                   tmpDir, mounted, unmounts, sigOn, sigs, nsig, status, timeUp,
                   tickerOn, tickC, memOn, memC, ticker2On, tick2C, stopChecking,
                   stopChecking2, stateMutex, ranoutMem, ranoutTime, signalled,
                   killCalled, killErr, closeErr, readersClosed, peakmem, werr,
                   exitcode, dobury, dorelease, doarchive, failreason, myerr, berr,
                   unmountErr, retryNum, waits, worked, ret, behaviours, faults,
                   killedBy, sigAfterEndT, hasReserved, reserves, ourmem, cmerr, bpc,
                   bret, backups, files, mountErr, odpc, opens, remote, objectCh,
                   attempts, backoffs, entries, isDir, odStatus, dirContents, fsFiles,
                   fsDirs>>

\* c.Started(job, pid): CurrentIP, then the "jstart" request
ExecuteCallStarted ==
    /\ pc["main"] = "callStarted"
    /\ \E ip \in BOOLEAN :
         IF ip
           THEN /\ Enter("main", "jstart", "wantReq", <<>>, "")
                /\ Goto("main", "starting")
           ELSE /\ Goto("main", "startedFailed")
                /\ UNCHANGED <<rst, rm, jes, reason>>
    /\ UNCHANGED <<reqMutex, teMutex, inflight, calls, jobState, jobFailReason,
                   jobExited, jobExitcode, untilBuried, reservedByMe, cwdMatters,
                   tmpDir, mounted, unmounts, sigOn, sigs, nsig, child, status, timeUp,
                   tickerOn, tickC, memOn, memC, ticker2On, tick2C, stopChecking,
                   stopChecking2, stateMutex, ranoutMem, ranoutTime, signalled,
                   killCalled, killErr, closeErr, readersClosed, peakmem, werr,
                   exitcode, dobury, dorelease, doarchive, failreason, myerr, berr,
                   unmountErr, retryNum, waits, worked, ret, behaviours, faults,
                   killedBy, sigAfterEndT, hasReserved, reserves, ourmem, cmerr, bpc,
                   bret, backups, files, mountErr, odpc, opens, remote, objectCh,
                   attempts, backoffs, entries, isDir, odStatus, dirContents, fsFiles,
                   fsDirs>>

\* a Started failure after which the child is left running
ExecuteStartedFailedNoKill ==
    /\ pc["main"] = "startedFailed"
    /\ behaviours' = Append(behaviours, FALSE)
    /\ unmounts' = Append(unmounts, TRUE)
    /\ Return("error", TRUE)
    /\ UNCHANGED <<reqMutex, teMutex, inflight, rst, rm, jes, reason, calls, jobState,
                   jobFailReason, jobExited, jobExitcode, untilBuried, reservedByMe,
                   cwdMatters, mounted, sigs, nsig, child, status, timeUp, tickerOn,
                   tickC, memOn, memC, ticker2On, tick2C, stopChecking, stopChecking2,
                   ranoutMem, ranoutTime, signalled, killCalled, killErr, closeErr,
                   readersClosed, peakmem, werr, exitcode, dobury, dorelease,
                   doarchive, failreason, myerr, berr, unmountErr, retryNum, waits,
                   worked, faults, killedBy, sigAfterEndT, hasReserved, reserves,
                   ourmem, cmerr, bpc, bret, backups, files, mountErr, odpc, opens,
                   remote, objectCh, attempts, backoffs, entries, isDir, odStatus,
                   dirContents, fsFiles, fsDirs>>

\* a Started failure after which the mounts are left in place
ExecuteStartedFailedNoUnmount ==
    /\ pc["main"] = "startedFailed"
    /\ Kill("started")
    /\ behaviours' = Append(behaviours, FALSE)
    /\ Return("error", TRUE)
    /\ UNCHANGED <<reqMutex, teMutex, inflight, rst, rm, jes, reason, calls, jobState,
                   jobFailReason, jobExited, jobExitcode, untilBuried, reservedByMe,
                   cwdMatters, mounted, unmounts, sigs, nsig, timeUp, tickerOn, tickC,
                   memOn, memC, ticker2On, tick2C, stopChecking, stopChecking2,
                   ranoutMem, ranoutTime, signalled, killCalled, killErr, closeErr,
                   readersClosed, peakmem, werr, exitcode, dobury, dorelease,
                   doarchive, failreason, myerr, berr, unmountErr, retryNum, waits,
                   worked, faults, sigAfterEndT, hasReserved, reserves, ourmem, cmerr,
                   bpc, bret, backups, files, mountErr, odpc, opens, remote, objectCh,
                   attempts, backoffs, entries, isDir, odStatus, dirContents, fsFiles,
                   fsDirs>>

\* Started failed: kill the child, TriggerBehaviours(false), Unmount(true),
\* return
ExecuteStartedFailed ==
    /\ pc["main"] = "startedFailed"
    /\ Kill("started")
    /\ behaviours' = Append(behaviours, FALSE)
    /\ unmounts' = Append(unmounts, TRUE)
    /\ Return("error", TRUE)
    /\ UNCHANGED <<reqMutex, teMutex, inflight, rst, rm, jes, reason, calls, jobState,
                   jobFailReason, jobExited, jobExitcode, untilBuried, reservedByMe,
                   cwdMatters, mounted, sigs, nsig, timeUp, tickerOn, tickC, memOn,
                   memC, ticker2On, tick2C, stopChecking, stopChecking2, ranoutMem,
                   ranoutTime, signalled, killCalled, killErr, closeErr, readersClosed,
                   peakmem, werr, exitcode, dobury, dorelease, doarchive, failreason,
                   myerr, berr, unmountErr, retryNum, waits, worked, faults,
                   sigAfterEndT, hasReserved, reserves, ourmem, cmerr, bpc, bret,
                   backups, files, mountErr, odpc, opens, remote, objectCh, attempts,
                   backoffs, entries, isDir, odStatus, dirContents, fsFiles, fsDirs>>

\* the two tickers and the supervisory goroutine
ExecuteSpawn ==
    /\ pc["main"] = "spawn"
    /\ tickerOn' = TRUE
    /\ memOn' = TRUE
    /\ pc' = [pc EXCEPT !["main"] = "pipes", !["sup"] = "select"]
    /\ UNCHANGED <<reqMutex, teMutex, inflight, rst, rm, jes, reason, calls, jobState,
                   jobFailReason, jobExited, jobExitcode, untilBuried, reservedByMe,
                   cwdMatters, tmpDir, mounted, unmounts, sigOn, sigs, nsig, child,
                   status, timeUp, tickC, memC, ticker2On, tick2C, stopChecking,
                   stopChecking2, stateMutex, ranoutMem, ranoutTime, signalled,
                   killCalled, killErr, closeErr, readersClosed, peakmem, werr,
                   exitcode, dobury, dorelease, doarchive, failreason, myerr, berr,
                   unmountErr, retryNum, waits, worked, ret, behaviours, faults,
                   killedBy, sigAfterEndT, hasReserved, reserves, ourmem, cmerr, bpc,
                   bret, backups, files, mountErr, odpc, opens, remote, objectCh,
                   attempts, backoffs, entries, isDir, odStatus, dirContents, fsFiles,
                   fsDirs>>

\* <-stderrWait; <-stdoutWait: the output filters end when the child's ends
\* of the pipes are closed or the readers are
ExecutePipes ==
    /\ pc["main"] = "pipes"
    /\ child # "running" \/ readersClosed
    /\ Goto("main", "wait")
    /\ UNCHANGED <<reqMutex, teMutex, inflight, rst, rm, jes, reason, calls, jobState,
                   jobFailReason, jobExited, jobExitcode, untilBuried, reservedByMe,
                   cwdMatters, tmpDir, mounted, unmounts, sigOn, sigs, nsig, child,
                   status, timeUp, tickerOn, tickC, memOn, memC, ticker2On, tick2C,
                   stopChecking, stopChecking2, stateMutex, ranoutMem, ranoutTime,
                   signalled, killCalled, killErr, closeErr, readersClosed, peakmem,
                   werr, exitcode, dobury, dorelease, doarchive, failreason, myerr,
                   berr, unmountErr, retryNum, waits, worked, ret, behaviours, faults,
                   killedBy, sigAfterEndT, hasReserved, reserves, ourmem, cmerr, bpc,
                   bret, backups, files, mountErr, odpc, opens, remote, objectCh,
                   attempts, backoffs, entries, isDir, odStatus, dirContents, fsFiles,
                   fsDirs>>

\* cmd.Wait()
ExecuteWait ==
    /\ pc["main"] = "wait"
    /\ child = "exited"
    /\ child' = "reaped"
    /\ \E other \in BOOLEAN :
         /\ other => faults < MaxFaults
         /\ faults' = IF other THEN faults + 1 ELSE faults
         /\ werr' = IF other THEN "other" ELSE IF status = 0 THEN "nil" ELSE "exit"
    /\ Goto("main", "stop")
    /\ UNCHANGED <<reqMutex, teMutex, inflight, rst, rm, jes, reason, calls, jobState,
                   jobFailReason, jobExited, jobExitcode, untilBuried, reservedByMe,
                   cwdMatters, tmpDir, mounted, unmounts, sigOn, sigs, nsig, status,
                   timeUp, tickerOn, tickC, memOn, memC, ticker2On, tick2C,
                   stopChecking, stopChecking2, stateMutex, ranoutMem, ranoutTime,
                   signalled, killCalled, killErr, closeErr, readersClosed, peakmem,
                   exitcode, dobury, dorelease, doarchive, failreason, myerr, berr,
                   unmountErr, retryNum, waits, worked, ret, behaviours, killedBy,
                   sigAfterEndT, hasReserved, reserves, ourmem, cmerr, bpc, bret,
                   backups, files, mountErr, odpc, opens, remote, objectCh, attempts,
                   backoffs, entries, isDir, odStatus, dirContents, fsFiles, fsDirs>>

\* this process's memory taken as currentMemory returned it, also on an error
OurMemUnchecked(m) == m

\* if peakmem == 0 { peakmem = int(ru.Maxrss / 1024) }
PeakOrMaxrss(pk, ru) == IF pk = 0 THEN ru ELSE pk

\* ourmem, cmerr := currentMemory(os.Getpid()); if cmerr != nil { ourmem = 10 }
OurMem(m) == IF m = MemErr THEN OurMemFloor ELSE m

\* the same with a stopChecking that has no buffer: the send waits for the
\* supervisory goroutine to receive
ExecuteClassifyUnbuffered ==
    /\ pc["main"] = "stop"
    /\ pc["sup"] = "select"
    /\ tickerOn' = FALSE
    /\ memOn' = FALSE
    /\ tickC' = TRUE
    /\ memC' = TRUE
    /\ stopChecking' = FALSE
    /\ CanLock(stateMutex)
    /\ stateMutex' = "main"
    /\ \E ru \in MaxrssSamples, m \in OurMemSamples \cup {MemErr} :
         /\ cmerr' = (m = MemErr)
         /\ ourmem' = OurMem(m)
         /\ peakmem' = PeakOrMaxrss(peakmem, ru) + OurMem(m)
    /\ SetClass(Classify(werr, status, ranoutMem, ranoutTime, signalled, killCalled))
    /\ ticker2On' = TRUE
    /\ pc' = [pc EXCEPT !["main"] = "killErr", !["sup"] = "done", !["t2"] = "select"]
    /\ UNCHANGED <<reqMutex, teMutex, inflight, rst, rm, jes, reason, calls, jobState,
                   jobFailReason, jobExited, jobExitcode, untilBuried, reservedByMe,
                   cwdMatters, tmpDir, mounted, unmounts, sigOn, sigs, nsig, child,
                   status, timeUp, tick2C, stopChecking2, ranoutMem, ranoutTime,
                   signalled, killCalled, killErr, closeErr, readersClosed, werr, berr,
                   unmountErr, retryNum, waits, worked, ret, behaviours, faults,
                   killedBy, sigAfterEndT, hasReserved, reserves, bpc, bret, backups,
                   files, mountErr, odpc, opens, remote, objectCh, attempts, backoffs,
                   entries, isDir, odStatus, dirContents, fsFiles, fsDirs>>

\* After Wait: ticker.Stop(); memTicker.Stop(); stopChecking <- true (a tick
\* sent before Stop and not yet received may be in each ticker's channel);
\* stateMutex.Lock(), unlocked when Execute returns; peakmem, from ru.Maxrss
\* when it is 0, plus this process's memory; the exit code and what to do with
\* the job; ticker2 and its goroutine.
ExecuteClassify ==
    /\ pc["main"] = "stop"
    /\ tickerOn' = FALSE
    /\ memOn' = FALSE
    /\ tickC' = TRUE
    /\ memC' = TRUE
    /\ stopChecking' = TRUE
    /\ CanLock(stateMutex)
    /\ stateMutex' = "main"
    /\ \E ru \in MaxrssSamples, m \in OurMemSamples \cup {MemErr} :
         /\ cmerr' = (m = MemErr)
         /\ ourmem' = OurMem(m)
         /\ peakmem' = PeakOrMaxrss(peakmem, ru) + OurMem(m)
    /\ SetClass(Classify(werr, status, ranoutMem, ranoutTime, signalled, killCalled))
    /\ ticker2On' = TRUE
    /\ pc' = [pc EXCEPT !["main"] = "killErr", !["t2"] = "select"]
    /\ UNCHANGED <<reqMutex, teMutex, inflight, rst, rm, jes, reason, calls, jobState,
                   jobFailReason, jobExited, jobExitcode, untilBuried, reservedByMe,
                   cwdMatters, tmpDir, mounted, unmounts, sigOn, sigs, nsig, child,
                   status, timeUp, tick2C, stopChecking2, ranoutMem, ranoutTime,
                   signalled, killCalled, killErr, closeErr, readersClosed, werr, berr,
                   unmountErr, retryNum, waits, worked, ret, behaviours, faults,
                   killedBy, sigAfterEndT, hasReserved, reserves, bpc, bret, backups,
                   files, mountErr, odpc, opens, remote, objectCh, attempts, backoffs,
                   entries, isDir, odStatus, dirContents, fsFiles, fsDirs>>

\* if killErr != nil: the supervisory goroutine writes killErr before it
\* asks for stateMutex, which main holds here; while it waits there its write
\* is not ordered with this read, which sees the error or nil
KillErrRead ==
    IF killErr /\ pc["sup"] \in {"sigLatch", "kcLatch"} THEN {TRUE, FALSE} ELSE {killErr}

\* if closeErr != nil: the supervisory goroutine writes closeErr after its
\* last Unlock of stateMutex, so the write is not ordered with this read
CloseErrRead == IF closeErr THEN {TRUE, FALSE} ELSE {FALSE}

\* killErr and closeErr join the error; job.TriggerBehaviours(myerr == nil);
\* job.Unmount(), where an error with "failed to upload" changes what is
\* reported; ticker2.Stop(); stopChecking2 <- true
ExecuteUnmount ==
    /\ pc["main"] = "killErr"
    /\ unmounts' = Append(unmounts, FALSE)
    /\ \E kE \in KillErrRead, cE \in CloseErrRead,
          b \in BOOLEAN, u \in {"nil", "upload", "other"} :
         LET n == (IF b THEN 1 ELSE 0) + (IF u # "nil" THEN 1 ELSE 0) IN
         /\ behaviours' = Append(behaviours, ~(myerr \/ kE \/ cE))
         /\ faults + n <= MaxFaults
         /\ faults' = faults + n
         /\ berr' = b
         /\ unmountErr' = u
         /\ dorelease' = IF UploadFailed(u) /\ ~dobury THEN TRUE ELSE dorelease
         /\ failreason' = IF UploadFailed(u) THEN UploadReason(failreason) ELSE failreason
         /\ exitcode' = IF UploadFailed(u) /\ exitcode = 0 THEN UploadExitcode ELSE exitcode
         /\ myerr' = (myerr \/ kE \/ cE \/ b \/ u # "nil")
    /\ ticker2On' = FALSE
    /\ tick2C' = TRUE
    /\ stopChecking2' = TRUE
    /\ Goto("main", "report")
    /\ UNCHANGED <<reqMutex, teMutex, inflight, rst, rm, jes, reason, calls, jobState,
                   jobFailReason, jobExited, jobExitcode, untilBuried, reservedByMe,
                   cwdMatters, tmpDir, mounted, sigOn, sigs, nsig, child, status,
                   timeUp, tickerOn, tickC, memOn, memC, stopChecking, stateMutex,
                   ranoutMem, ranoutTime, signalled, killCalled, killErr, closeErr,
                   readersClosed, peakmem, werr, dobury, doarchive, retryNum, waits,
                   worked, ret, killedBy, sigAfterEndT, hasReserved, reserves, ourmem,
                   cmerr, bpc, bret, backups, files, mountErr, odpc, opens, remote,
                   objectCh, attempts, backoffs, entries, isDir, odStatus, dirContents,
                   fsFiles, fsDirs>>

\* one attempt of the retry loop: Bury, Release or Archive
ExecuteReport ==
    /\ pc["main"] = "report"
    /\ ~LoopDone(retryNum)
    /\ EnterEndState("main", Method(dobury, dorelease, doarchive), <<exitcode>>, failreason)
    /\ Goto("main", "reporting")
    /\ UNCHANGED <<reqMutex, teMutex, inflight, calls, jobState, jobFailReason,
                   jobExited, jobExitcode, untilBuried, reservedByMe, cwdMatters,
                   tmpDir, mounted, unmounts, sigOn, sigs, nsig, child, status, timeUp,
                   tickerOn, tickC, memOn, memC, ticker2On, tick2C, stopChecking,
                   stopChecking2, stateMutex, ranoutMem, ranoutTime, signalled,
                   killCalled, killErr, closeErr, readersClosed, peakmem, werr,
                   exitcode, dobury, dorelease, doarchive, failreason, myerr, berr,
                   unmountErr, retryNum, waits, worked, ret, behaviours, faults,
                   killedBy, sigAfterEndT, hasReserved, reserves, ourmem, cmerr, bpc,
                   bret, backups, files, mountErr, odpc, opens, remote, objectCh,
                   attempts, backoffs, entries, isDir, odStatus, dirContents, fsFiles,
                   fsDirs>>

\* no attempt worked: TriggerBehaviours(false) and the error that the job must
\* be rerun
ExecuteGiveUp ==
    /\ pc["main"] = "report"
    /\ LoopDone(retryNum)
    /\ behaviours' = Append(behaviours, FALSE)
    /\ Return("rerun", TRUE)
    /\ UNCHANGED <<reqMutex, teMutex, inflight, rst, rm, jes, reason, calls, jobState,
                   jobFailReason, jobExited, jobExitcode, untilBuried, reservedByMe,
                   cwdMatters, mounted, unmounts, sigs, nsig, child, status, timeUp,
                   tickerOn, tickC, memOn, memC, ticker2On, tick2C, stopChecking,
                   stopChecking2, ranoutMem, ranoutTime, signalled, killCalled,
                   killErr, closeErr, readersClosed, peakmem, werr, exitcode, dobury,
                   dorelease, doarchive, failreason, myerr, berr, unmountErr, retryNum,
                   waits, worked, faults, killedBy, sigAfterEndT, hasReserved,
                   reserves, ourmem, cmerr, bpc, bret, backups, files, mountErr, odpc,
                   opens, remote, objectCh, attempts, backoffs, entries, isDir,
                   odStatus, dirContents, fsFiles, fsDirs>>

\* ------------------------------------------------------------------------
\* Execute: the supervisory goroutine
\* ------------------------------------------------------------------------

\* case <-sigs: killErr = cmd.Process.Kill()
SupSignal ==
    /\ pc["sup"] = "select"
    /\ sigs > 0
    /\ sigs' = sigs - 1
    /\ Kill("signal")
    /\ killErr' = KillError
    /\ Goto("sup", "sigLatch")
    /\ UNCHANGED <<reqMutex, teMutex, inflight, rst, rm, jes, reason, calls, jobState,
                   jobFailReason, jobExited, jobExitcode, untilBuried, reservedByMe,
                   cwdMatters, tmpDir, mounted, unmounts, sigOn, nsig, timeUp,
                   tickerOn, tickC, memOn, memC, ticker2On, tick2C, stopChecking,
                   stopChecking2, stateMutex, ranoutMem, ranoutTime, signalled,
                   killCalled, closeErr, readersClosed, peakmem, werr, exitcode,
                   dobury, dorelease, doarchive, failreason, myerr, berr, unmountErr,
                   retryNum, waits, worked, ret, behaviours, faults, sigAfterEndT,
                   hasReserved, reserves, ourmem, cmerr, bpc, bret, backups, files,
                   mountErr, odpc, opens, remote, objectCh, attempts, backoffs,
                   entries, isDir, odStatus, dirContents, fsFiles, fsDirs>>

\* stateMutex.Lock(); signalled = true; stateMutex.Unlock()
SupSignalLatch ==
    /\ pc["sup"] = "sigLatch"
    /\ CanLock(stateMutex)
    /\ signalled' = TRUE
    /\ Goto("sup", "close")
    /\ UNCHANGED <<reqMutex, teMutex, inflight, rst, rm, jes, reason, calls, jobState,
                   jobFailReason, jobExited, jobExitcode, untilBuried, reservedByMe,
                   cwdMatters, tmpDir, mounted, unmounts, sigOn, sigs, nsig, child,
                   status, timeUp, tickerOn, tickC, memOn, memC, ticker2On, tick2C,
                   stopChecking, stopChecking2, stateMutex, ranoutMem, ranoutTime,
                   killCalled, killErr, closeErr, readersClosed, peakmem, werr,
                   exitcode, dobury, dorelease, doarchive, failreason, myerr, berr,
                   unmountErr, retryNum, waits, worked, ret, behaviours, faults,
                   killedBy, sigAfterEndT, hasReserved, reserves, ourmem, cmerr, bpc,
                   bret, backups, files, mountErr, odpc, opens, remote, objectCh,
                   attempts, backoffs, entries, isDir, odStatus, dirContents, fsFiles,
                   fsDirs>>

\* errReader.Close(); outReader.Close(); return
SupClose ==
    /\ pc["sup"] = "close"
    /\ readersClosed' = TRUE
    /\ closeErr' = (closeErr \/ CloseError)
    /\ Goto("sup", "done")
    /\ UNCHANGED <<reqMutex, teMutex, inflight, rst, rm, jes, reason, calls, jobState,
                   jobFailReason, jobExited, jobExitcode, untilBuried, reservedByMe,
                   cwdMatters, tmpDir, mounted, unmounts, sigOn, sigs, nsig, child,
                   status, timeUp, tickerOn, tickC, memOn, memC, ticker2On, tick2C,
                   stopChecking, stopChecking2, stateMutex, ranoutMem, ranoutTime,
                   signalled, killCalled, killErr, peakmem, werr, exitcode, dobury,
                   dorelease, doarchive, failreason, myerr, berr, unmountErr, retryNum,
                   waits, worked, ret, behaviours, faults, killedBy, sigAfterEndT,
                   hasReserved, reserves, ourmem, cmerr, bpc, bret, backups, files,
                   mountErr, odpc, opens, remote, objectCh, attempts, backoffs,
                   entries, isDir, odStatus, dirContents, fsFiles, fsDirs>>

\* case <-ticker.C: under stateMutex latch ranoutTime when now is after endT,
\* then call Touch
SupTick ==
    /\ pc["sup"] = "select"
    /\ tickerOn \/ tickC
    /\ tickC' = FALSE
    /\ CanLock(stateMutex)
    /\ ranoutTime' = (ranoutTime \/ timeUp)
    /\ Enter("sup", "jtouch", "wantTE", <<>>, "")
    /\ Goto("sup", "touch")
    /\ UNCHANGED <<reqMutex, teMutex, inflight, calls, jobState, jobFailReason,
                   jobExited, jobExitcode, untilBuried, reservedByMe, cwdMatters,
                   tmpDir, mounted, unmounts, sigOn, sigs, nsig, child, status, timeUp,
                   tickerOn, memOn, memC, ticker2On, tick2C, stopChecking,
                   stopChecking2, stateMutex, ranoutMem, signalled, killCalled,
                   killErr, closeErr, readersClosed, peakmem, werr, exitcode, dobury,
                   dorelease, doarchive, failreason, myerr, berr, unmountErr, retryNum,
                   waits, worked, ret, behaviours, faults, killedBy, sigAfterEndT,
                   hasReserved, reserves, ourmem, cmerr, bpc, bret, backups, files,
                   mountErr, odpc, opens, remote, objectCh, attempts, backoffs,
                   entries, isDir, odStatus, dirContents, fsFiles, fsDirs>>

\* stateMutex.Lock(); killCalled = true; stateMutex.Unlock()
SupKillCalledLatch ==
    /\ pc["sup"] = "kcLatch"
    /\ CanLock(stateMutex)
    /\ killCalled' = TRUE
    /\ Goto("sup", "close")
    /\ UNCHANGED <<reqMutex, teMutex, inflight, rst, rm, jes, reason, calls, jobState,
                   jobFailReason, jobExited, jobExitcode, untilBuried, reservedByMe,
                   cwdMatters, tmpDir, mounted, unmounts, sigOn, sigs, nsig, child,
                   status, timeUp, tickerOn, tickC, memOn, memC, ticker2On, tick2C,
                   stopChecking, stopChecking2, stateMutex, ranoutMem, ranoutTime,
                   signalled, killErr, closeErr, readersClosed, peakmem, werr,
                   exitcode, dobury, dorelease, doarchive, failreason, myerr, berr,
                   unmountErr, retryNum, waits, worked, ret, behaviours, faults,
                   killedBy, sigAfterEndT, hasReserved, reserves, ourmem, cmerr, bpc,
                   bret, backups, files, mountErr, odpc, opens, remote, objectCh,
                   attempts, backoffs, entries, isDir, odStatus, dirContents, fsFiles,
                   fsDirs>>

\* a memory tick after which the supervisory goroutine selects again also
\* when it has killed the child
SupMemTickGoesOn ==
    /\ pc["sup"] = "select"
    /\ memOn \/ memC
    /\ memC' = FALSE
    /\ CanLock(stateMutex)
    /\ \E mem \in MemSamples \cup {MemErr} :
       IF mem # MemErr /\ mem > peakmem
         THEN /\ peakmem' = mem
              /\ IF MemOver(mem)
                   THEN /\ Kill("mem")
                        /\ killErr' = KillError
                        /\ ranoutMem' = TRUE
                   ELSE UNCHANGED <<child, status, killedBy, killErr, ranoutMem>>
         ELSE UNCHANGED <<peakmem, child, status, killedBy, killErr, ranoutMem>>
    /\ UNCHANGED <<reqMutex, teMutex, inflight, rst, rm, jes, reason, calls, jobState,
                   jobFailReason, jobExited, jobExitcode, untilBuried, pc,
                   reservedByMe, cwdMatters, tmpDir, mounted, unmounts, sigOn, sigs,
                   nsig, timeUp, tickerOn, tickC, memOn, ticker2On, tick2C,
                   stopChecking, stopChecking2, stateMutex, ranoutTime, signalled,
                   killCalled, closeErr, readersClosed, werr, exitcode, dobury,
                   dorelease, doarchive, failreason, myerr, berr, unmountErr, retryNum,
                   waits, worked, ret, behaviours, faults, sigAfterEndT, hasReserved,
                   reserves, ourmem, cmerr, bpc, bret, backups, files, mountErr, odpc,
                   opens, remote, objectCh, attempts, backoffs, entries, isDir,
                   odStatus, dirContents, fsFiles, fsDirs>>

\* case <-memTicker.C: mem, errf := currentMemory(job.Pid)
\* under stateMutex: a new peak; above Requirements.RAM kill the child, latch
\* ranoutMem and return
SupMemTick ==
    /\ pc["sup"] = "select"
    /\ memOn \/ memC
    /\ memC' = FALSE
    /\ CanLock(stateMutex)
    /\ \E mem \in MemSamples \cup {MemErr} :
       IF mem # MemErr /\ mem > peakmem
         THEN /\ peakmem' = mem
              /\ IF MemOver(mem)
                   THEN /\ Kill("mem")
                        /\ killErr' = KillError
                        /\ ranoutMem' = TRUE
                        /\ Goto("sup", "done")
                   ELSE /\ Goto("sup", "select")
                        /\ UNCHANGED <<child, status, killedBy, killErr, ranoutMem>>
         ELSE /\ Goto("sup", "select")
              /\ UNCHANGED <<peakmem, child, status, killedBy, killErr, ranoutMem>>
    /\ UNCHANGED <<reqMutex, teMutex, inflight, rst, rm, jes, reason, calls, jobState,
                   jobFailReason, jobExited, jobExitcode, untilBuried, reservedByMe,
                   cwdMatters, tmpDir, mounted, unmounts, sigOn, sigs, nsig, timeUp,
                   tickerOn, tickC, memOn, ticker2On, tick2C, stopChecking,
                   stopChecking2, stateMutex, ranoutTime, signalled, killCalled,
                   closeErr, readersClosed, werr, exitcode, dobury, dorelease,
                   doarchive, failreason, myerr, berr, unmountErr, retryNum, waits,
                   worked, ret, behaviours, faults, sigAfterEndT, hasReserved,
                   reserves, ourmem, cmerr, bpc, bret, backups, files, mountErr, odpc,
                   opens, remote, objectCh, attempts, backoffs, entries, isDir,
                   odStatus, dirContents, fsFiles, fsDirs>>

\* case <-stopChecking
SupStop ==
    /\ pc["sup"] = "select"
    /\ stopChecking
    /\ stopChecking' = FALSE
    /\ Goto("sup", "done")
    /\ UNCHANGED <<reqMutex, teMutex, inflight, rst, rm, jes, reason, calls, jobState,
                   jobFailReason, jobExited, jobExitcode, untilBuried, reservedByMe,
                   cwdMatters, tmpDir, mounted, unmounts, sigOn, sigs, nsig, child,
                   status, timeUp, tickerOn, tickC, memOn, memC, ticker2On, tick2C,
                   stopChecking2, stateMutex, ranoutMem, ranoutTime, signalled,
                   killCalled, killErr, closeErr, readersClosed, peakmem, werr,
                   exitcode, dobury, dorelease, doarchive, failreason, myerr, berr,
                   unmountErr, retryNum, waits, worked, ret, behaviours, faults,
                   killedBy, sigAfterEndT, hasReserved, reserves, ourmem, cmerr, bpc,
                   bret, backups, files, mountErr, odpc, opens, remote, objectCh,
                   attempts, backoffs, entries, isDir, odStatus, dirContents, fsFiles,
                   fsDirs>>

\* ------------------------------------------------------------------------
\* Execute: the goroutine of ticker2
\* ------------------------------------------------------------------------

\* case <-sigs: return
T2Signal ==
    /\ pc["t2"] = "select"
    /\ sigs > 0
    /\ sigs' = sigs - 1
    /\ Goto("t2", "done")
    /\ UNCHANGED <<reqMutex, teMutex, inflight, rst, rm, jes, reason, calls, jobState,
                   jobFailReason, jobExited, jobExitcode, untilBuried, reservedByMe,
                   cwdMatters, tmpDir, mounted, unmounts, sigOn, nsig, child, status,
                   timeUp, tickerOn, tickC, memOn, memC, ticker2On, tick2C,
                   stopChecking, stopChecking2, stateMutex, ranoutMem, ranoutTime,
                   signalled, killCalled, killErr, closeErr, readersClosed, peakmem,
                   werr, exitcode, dobury, dorelease, doarchive, failreason, myerr,
                   berr, unmountErr, retryNum, waits, worked, ret, behaviours, faults,
                   killedBy, sigAfterEndT, hasReserved, reserves, ourmem, cmerr, bpc,
                   bret, backups, files, mountErr, odpc, opens, remote, objectCh,
                   attempts, backoffs, entries, isDir, odStatus, dirContents, fsFiles,
                   fsDirs>>

\* case <-ticker2.C: Touch unless killCalled, ranoutMem or signalled
T2Tick ==
    /\ pc["t2"] = "select"
    /\ ticker2On \/ tick2C
    /\ tick2C' = FALSE
    /\ IF MayTouch2(killCalled, ranoutMem, signalled)
         THEN /\ Enter("t2", "jtouch", "wantTE", <<>>, "")
              /\ Goto("t2", "touch")
         ELSE UNCHANGED <<rst, rm, jes, reason, pc>>
    /\ UNCHANGED <<reqMutex, teMutex, inflight, calls, jobState, jobFailReason,
                   jobExited, jobExitcode, untilBuried, reservedByMe, cwdMatters,
                   tmpDir, mounted, unmounts, sigOn, sigs, nsig, child, status, timeUp,
                   tickerOn, tickC, memOn, memC, ticker2On, stopChecking,
                   stopChecking2, stateMutex, ranoutMem, ranoutTime, signalled,
                   killCalled, killErr, closeErr, readersClosed, peakmem, werr,
                   exitcode, dobury, dorelease, doarchive, failreason, myerr, berr,
                   unmountErr, retryNum, waits, worked, ret, behaviours, faults,
                   killedBy, sigAfterEndT, hasReserved, reserves, ourmem, cmerr, bpc,
                   bret, backups, files, mountErr, odpc, opens, remote, objectCh,
                   attempts, backoffs, entries, isDir, odStatus, dirContents, fsFiles,
                   fsDirs>>

\* case <-stopChecking2
T2Stop ==
    /\ pc["t2"] = "select"
    /\ stopChecking2
    /\ stopChecking2' = FALSE
    /\ Goto("t2", "done")
    /\ UNCHANGED <<reqMutex, teMutex, inflight, rst, rm, jes, reason, calls, jobState,
                   jobFailReason, jobExited, jobExitcode, untilBuried, reservedByMe,
                   cwdMatters, tmpDir, mounted, unmounts, sigOn, sigs, nsig, child,
                   status, timeUp, tickerOn, tickC, memOn, memC, ticker2On, tick2C,
                   stopChecking, stateMutex, ranoutMem, ranoutTime, signalled,
                   killCalled, killErr, closeErr, readersClosed, peakmem, werr,
                   exitcode, dobury, dorelease, doarchive, failreason, myerr, berr,
                   unmountErr, retryNum, waits, worked, ret, behaviours, faults,
                   killedBy, sigAfterEndT, hasReserved, reserves, ourmem, cmerr, bpc,
                   bret, backups, files, mountErr, odpc, opens, remote, objectCh,
                   attempts, backoffs, entries, isDir, odStatus, dirContents, fsFiles,
                   fsDirs>>

\* ------------------------------------------------------------------------
\* The environment of Execute
\* ------------------------------------------------------------------------

\* the child ends by itself
ChildExits ==
    /\ child = "running"
    /\ child' = "exited"
    /\ \E c \in ExitCodes : status' = c
    /\ UNCHANGED <<reqMutex, teMutex, inflight, rst, rm, jes, reason, calls, jobState,
                   jobFailReason, jobExited, jobExitcode, untilBuried, pc,
                   reservedByMe, cwdMatters, tmpDir, mounted, unmounts, sigOn, sigs,
                   nsig, timeUp, tickerOn, tickC, memOn, memC, ticker2On, tick2C,
                   stopChecking, stopChecking2, stateMutex, ranoutMem, ranoutTime,
                   signalled, killCalled, killErr, closeErr, readersClosed, peakmem,
                   werr, exitcode, dobury, dorelease, doarchive, failreason, myerr,
                   berr, unmountErr, retryNum, waits, worked, ret, behaviours, faults,
                   killedBy, sigAfterEndT, hasReserved, reserves, ourmem, cmerr, bpc,
                   bret, backups, files, mountErr, odpc, opens, remote, objectCh,
                   attempts, backoffs, entries, isDir, odStatus, dirContents, fsFiles,
                   fsDirs>>

\* one of the registered signals is delivered while Notify is in effect
SignalArrives ==
    /\ sigOn
    /\ child \in {"running", "exited"}
    /\ nsig < MaxSignals
    /\ nsig' = nsig + 1
    /\ sigAfterEndT' = timeUp
    /\ sigs' = IF sigs < SigsCap THEN sigs + 1 ELSE sigs
    /\ UNCHANGED <<reqMutex, teMutex, inflight, rst, rm, jes, reason, calls, jobState,
                   jobFailReason, jobExited, jobExitcode, untilBuried, pc,
                   reservedByMe, cwdMatters, tmpDir, mounted, unmounts, sigOn, child,
                   status, timeUp, tickerOn, tickC, memOn, memC, ticker2On, tick2C,
                   stopChecking, stopChecking2, stateMutex, ranoutMem, ranoutTime,
                   signalled, killCalled, killErr, closeErr, readersClosed, peakmem,
                   werr, exitcode, dobury, dorelease, doarchive, failreason, myerr,
                   berr, unmountErr, retryNum, waits, worked, ret, behaviours, faults,
                   killedBy, hasReserved, reserves, ourmem, cmerr, bpc, bret, backups,
                   files, mountErr, odpc, opens, remote, objectCh, attempts, backoffs,
                   entries, isDir, odStatus, dirContents, fsFiles, fsDirs>>

\* now passes endT
TimePasses ==
    /\ child = "running"
    /\ ~timeUp
    /\ timeUp' = TRUE
    /\ UNCHANGED <<reqMutex, teMutex, inflight, rst, rm, jes, reason, calls, jobState,
                   jobFailReason, jobExited, jobExitcode, untilBuried, pc,
                   reservedByMe, cwdMatters, tmpDir, mounted, unmounts, sigOn, sigs,
                   nsig, child, status, tickerOn, tickC, memOn, memC, ticker2On,
                   tick2C, stopChecking, stopChecking2, stateMutex, ranoutMem,
                   ranoutTime, signalled, killCalled, killErr, closeErr, readersClosed,
                   peakmem, werr, exitcode, dobury, dorelease, doarchive, failreason,
                   myerr, berr, unmountErr, retryNum, waits, worked, ret, behaviours,
                   faults, killedBy, sigAfterEndT, hasReserved, reserves, ourmem,
                   cmerr, bpc, bret, backups, files, mountErr, odpc, opens, remote,
                   objectCh, attempts, backoffs, entries, isDir, odStatus, dirContents,
                   fsFiles, fsDirs>>

\* ------------------------------------------------------------------------
\* Reserve and ReserveScheduled
\* ------------------------------------------------------------------------

\* every reserve request says it is the first
FirstReserveAlways(has) == TRUE

\* fr := false; if !c.hasReserved { fr = true; ... }
FirstReserve(has) == ~has

\* Reserve(timeout): fr is true when hasReserved was false, hasReserved is set,
\* then the request is made
Reserve ==
    /\ Len(reserves) < MaxReserves
    /\ hasReserved' = TRUE
    /\ \E out \in ReserveOutcomes :
         reserves' = Append(reserves, [fr |-> FirstReserve(hasReserved), group |-> "", out |-> out])
    /\ UNCHANGED <<reqMutex, teMutex, inflight, rst, rm, jes, reason, calls, jobState,
                   jobFailReason, jobExited, jobExitcode, untilBuried, pc,
                   reservedByMe, cwdMatters, tmpDir, mounted, unmounts, sigOn, sigs,
                   nsig, child, status, timeUp, tickerOn, tickC, memOn, memC,
                   ticker2On, tick2C, stopChecking, stopChecking2, stateMutex,
                   ranoutMem, ranoutTime, signalled, killCalled, killErr, closeErr,
                   readersClosed, peakmem, werr, exitcode, dobury, dorelease,
                   doarchive, failreason, myerr, berr, unmountErr, retryNum, waits,
                   worked, ret, behaviours, faults, killedBy, sigAfterEndT, ourmem,
                   cmerr, bpc, bret, backups, files, mountErr, odpc, opens, remote,
                   objectCh, attempts, backoffs, entries, isDir, odStatus, dirContents,
                   fsFiles, fsDirs>>

\* ReserveScheduled(timeout, schedulerGroup)
ReserveScheduled ==
    /\ Len(reserves) < MaxReserves
    /\ hasReserved' = TRUE
    /\ \E out \in ReserveOutcomes :
         reserves' = Append(reserves, [fr |-> FirstReserve(hasReserved), group |-> "g", out |-> out])
    /\ UNCHANGED <<reqMutex, teMutex, inflight, rst, rm, jes, reason, calls, jobState,
                   jobFailReason, jobExited, jobExitcode, untilBuried, pc,
                   reservedByMe, cwdMatters, tmpDir, mounted, unmounts, sigOn, sigs,
                   nsig, child, status, timeUp, tickerOn, tickC, memOn, memC,
                   ticker2On, tick2C, stopChecking, stopChecking2, stateMutex,
                   ranoutMem, ranoutTime, signalled, killCalled, killErr, closeErr,
                   readersClosed, peakmem, werr, exitcode, dobury, dorelease,
                   doarchive, failreason, myerr, berr, unmountErr, retryNum, waits,
                   worked, ret, behaviours, faults, killedBy, sigAfterEndT, ourmem,
                   cmerr, bpc, bret, backups, files, mountErr, odpc, opens, remote,
                   objectCh, attempts, backoffs, entries, isDir, odStatus, dirContents,
                   fsFiles, fsDirs>>

\* ------------------------------------------------------------------------
\* BackupDB
\* ------------------------------------------------------------------------

\* a BackupDB that writes to the path itself
TmpPathIsPath(path) == path

\* tmpPath := path + ".tmp"
TmpPath(path) == path \o ".tmp"

\* BackupDB(path) is called
BackupDB ==
    /\ bpc = "idle"
    /\ backups < MaxBackups
    /\ backups' = backups + 1
    /\ bpc' = "request"
    /\ UNCHANGED <<reqMutex, teMutex, inflight, rst, rm, jes, reason, calls, jobState,
                   jobFailReason, jobExited, jobExitcode, untilBuried, pc,
                   reservedByMe, cwdMatters, tmpDir, mounted, unmounts, sigOn, sigs,
                   nsig, child, status, timeUp, tickerOn, tickC, memOn, memC,
                   ticker2On, tick2C, stopChecking, stopChecking2, stateMutex,
                   ranoutMem, ranoutTime, signalled, killCalled, killErr, closeErr,
                   readersClosed, peakmem, werr, exitcode, dobury, dorelease,
                   doarchive, failreason, myerr, berr, unmountErr, retryNum, waits,
                   worked, ret, behaviours, faults, killedBy, sigAfterEndT,
                   hasReserved, reserves, ourmem, cmerr, bret, files, mountErr, odpc,
                   opens, remote, objectCh, attempts, backoffs, entries, isDir,
                   odStatus, dirContents, fsFiles, fsDirs>>

\* c.request(Method: "backup"): on an error BackupDB returns it
BackupReply ==
    /\ bpc = "request"
    /\ \E ok \in BOOLEAN :
         IF ok
           THEN bpc' = "write" /\ UNCHANGED bret
           ELSE bpc' = "idle" /\ bret' = "request"
    /\ UNCHANGED <<reqMutex, teMutex, inflight, rst, rm, jes, reason, calls, jobState,
                   jobFailReason, jobExited, jobExitcode, untilBuried, pc,
                   reservedByMe, cwdMatters, tmpDir, mounted, unmounts, sigOn, sigs,
                   nsig, child, status, timeUp, tickerOn, tickC, memOn, memC,
                   ticker2On, tick2C, stopChecking, stopChecking2, stateMutex,
                   ranoutMem, ranoutTime, signalled, killCalled, killErr, closeErr,
                   readersClosed, peakmem, werr, exitcode, dobury, dorelease,
                   doarchive, failreason, myerr, berr, unmountErr, retryNum, waits,
                   worked, ret, behaviours, faults, killedBy, sigAfterEndT,
                   hasReserved, reserves, ourmem, cmerr, backups, files, mountErr,
                   odpc, opens, remote, objectCh, attempts, backoffs, entries, isDir,
                   odStatus, dirContents, fsFiles, fsDirs>>

\* ioutil.WriteFile(tmpPath, resp.DB, dbFilePermission): all of the bytes are
\* written, or the file cannot be opened, or it is left with part of them
BackupWriteFile ==
    /\ bpc = "write"
    /\ \E r \in {"ok", "noOpen", "part"} :
         /\ files' = CASE r = "ok" ->
                            [files EXCEPT ![TmpPath(BackupPath)] = [v |-> backups, whole |-> TRUE]]
                       [] r = "part" ->
                            [files EXCEPT ![TmpPath(BackupPath)] = [v |-> backups, whole |-> FALSE]]
                       [] OTHER -> files
         /\ bpc' = IF r = "ok" THEN "rename" ELSE "remove"
    /\ UNCHANGED <<reqMutex, teMutex, inflight, rst, rm, jes, reason, calls, jobState,
                   jobFailReason, jobExited, jobExitcode, untilBuried, pc,
                   reservedByMe, cwdMatters, tmpDir, mounted, unmounts, sigOn, sigs,
                   nsig, child, status, timeUp, tickerOn, tickC, memOn, memC,
                   ticker2On, tick2C, stopChecking, stopChecking2, stateMutex,
                   ranoutMem, ranoutTime, signalled, killCalled, killErr, closeErr,
                   readersClosed, peakmem, werr, exitcode, dobury, dorelease,
                   doarchive, failreason, myerr, berr, unmountErr, retryNum, waits,
                   worked, ret, behaviours, faults, killedBy, sigAfterEndT,
                   hasReserved, reserves, ourmem, cmerr, bret, backups, mountErr, odpc,
                   opens, remote, objectCh, attempts, backoffs, entries, isDir,
                   odStatus, dirContents, fsFiles, fsDirs>>

\* the write failed: os.Remove(tmpPath), then return the error
BackupRemove ==
    /\ bpc = "remove"
    /\ \E ok \in BOOLEAN :
         files' = IF ok THEN [files EXCEPT ![TmpPath(BackupPath)] = NoFile] ELSE files
    /\ bret' = "write"
    /\ bpc' = "idle"
    /\ UNCHANGED <<reqMutex, teMutex, inflight, rst, rm, jes, reason, calls, jobState,
                   jobFailReason, jobExited, jobExitcode, untilBuried, pc,
                   reservedByMe, cwdMatters, tmpDir, mounted, unmounts, sigOn, sigs,
                   nsig, child, status, timeUp, tickerOn, tickC, memOn, memC,
                   ticker2On, tick2C, stopChecking, stopChecking2, stateMutex,
                   ranoutMem, ranoutTime, signalled, killCalled, killErr, closeErr,
                   readersClosed, peakmem, werr, exitcode, dobury, dorelease,
                   doarchive, failreason, myerr, berr, unmountErr, retryNum, waits,
                   worked, ret, behaviours, faults, killedBy, sigAfterEndT,
                   hasReserved, reserves, ourmem, cmerr, backups, mountErr, odpc,
                   opens, remote, objectCh, attempts, backoffs, entries, isDir,
                   odStatus, dirContents, fsFiles, fsDirs>>

\* return os.Rename(tmpPath, path)
BackupRename ==
    /\ bpc = "rename"
    /\ \E ok \in BOOLEAN :
         /\ files' = IF ok /\ TmpPath(BackupPath) # BackupPath
                       THEN [files EXCEPT ![BackupPath] = files[TmpPath(BackupPath)],
                                          ![TmpPath(BackupPath)] = NoFile]
                       ELSE files
         /\ bret' = IF ok THEN "nil" ELSE "rename"
    /\ bpc' = "idle"
    /\ UNCHANGED <<reqMutex, teMutex, inflight, rst, rm, jes, reason, calls, jobState,
                   jobFailReason, jobExited, jobExitcode, untilBuried, pc,
                   reservedByMe, cwdMatters, tmpDir, mounted, unmounts, sigOn, sigs,
                   nsig, child, status, timeUp, tickerOn, tickC, memOn, memC,
                   ticker2On, tick2C, stopChecking, stopChecking2, stateMutex,
                   ranoutMem, ranoutTime, signalled, killCalled, killErr, closeErr,
                   readersClosed, peakmem, werr, exitcode, dobury, dorelease,
                   doarchive, failreason, myerr, berr, unmountErr, retryNum, waits,
                   worked, ret, behaviours, faults, killedBy, sigAfterEndT,
                   hasReserved, reserves, ourmem, cmerr, backups, mountErr, odpc,
                   opens, remote, objectCh, attempts, backoffs, entries, isDir,
                   odStatus, dirContents, fsFiles, fsDirs>>

\* ------------------------------------------------------------------------
\* MinFys.openDir
\* ------------------------------------------------------------------------

\* d := fuse.DirEntry{Name: object.Key[len(fullPath):]}, with the Mode of a
\* directory when the name ends in "/"
DirEntry(o) == [name |-> o.name, dir |-> o.dir]

\* nothing cached for the directory
NotCached == [cached |-> FALSE, entries |-> <<>>]

\* openDir(name) is called: attempts := 0; fs.clientBackoff.Reset()
OpenDirCall ==
    /\ odpc = "idle"
    /\ opens < MaxOpens
    /\ opens' = opens + 1
    /\ \E r \in Remotes : remote' = r
    /\ attempts' = 0
    /\ backoffs' = 0
    /\ entries' = <<>>
    /\ isDir' = FALSE
    /\ odStatus' = "none"
    /\ objectCh' = <<>>
    /\ odpc' = "attempt"
    /\ UNCHANGED <<reqMutex, teMutex, inflight, rst, rm, jes, reason, calls, jobState,
                   jobFailReason, jobExited, jobExitcode, untilBuried, pc,
                   reservedByMe, cwdMatters, tmpDir, mounted, unmounts, sigOn, sigs,
                   nsig, child, status, timeUp, tickerOn, tickC, memOn, memC,
                   ticker2On, tick2C, stopChecking, stopChecking2, stateMutex,
                   ranoutMem, ranoutTime, signalled, killCalled, killErr, closeErr,
                   readersClosed, peakmem, werr, exitcode, dobury, dorelease,
                   doarchive, failreason, myerr, berr, unmountErr, retryNum, waits,
                   worked, ret, behaviours, faults, killedBy, sigAfterEndT,
                   hasReserved, reserves, ourmem, cmerr, bpc, bret, backups, files,
                   mountErr, dirContents, fsFiles, fsDirs>>

\* attempts++; objectCh := fs.client.ListObjectsV2(...)
OpenDirList ==
    /\ odpc = "attempt"
    /\ attempts' = attempts + 1
    /\ objectCh' = remote
    /\ odpc' = "range"
    /\ UNCHANGED <<reqMutex, teMutex, inflight, rst, rm, jes, reason, calls, jobState,
                   jobFailReason, jobExited, jobExitcode, untilBuried, pc,
                   reservedByMe, cwdMatters, tmpDir, mounted, unmounts, sigOn, sigs,
                   nsig, child, status, timeUp, tickerOn, tickC, memOn, memC,
                   ticker2On, tick2C, stopChecking, stopChecking2, stateMutex,
                   ranoutMem, ranoutTime, signalled, killCalled, killErr, closeErr,
                   readersClosed, peakmem, werr, exitcode, dobury, dorelease,
                   doarchive, failreason, myerr, berr, unmountErr, retryNum, waits,
                   worked, ret, behaviours, faults, killedBy, sigAfterEndT,
                   hasReserved, reserves, ourmem, cmerr, bpc, bret, backups, files,
                   mountErr, opens, remote, backoffs, entries, isDir, odStatus,
                   dirContents, fsFiles, fsDirs>>

\* the next object of the listing: the directory's own key is passed over,
\* another one is cached in fs.dirs or fs.files and appended to entries
OpenDirObject ==
    /\ odpc = "range"
    /\ objectCh # <<>>
    /\ objectCh' = Tail(objectCh)
    /\ LET o == Head(objectCh) IN
       IF o.self
         THEN UNCHANGED <<entries, isDir, fsDirs, fsFiles>>
         ELSE /\ fsDirs' = IF o.dir THEN fsDirs \cup {o.name} ELSE fsDirs
              /\ fsFiles' = IF o.dir THEN fsFiles ELSE fsFiles \cup {o.name}
              /\ entries' = Append(entries, DirEntry(o))
              /\ isDir' = TRUE
    /\ UNCHANGED <<reqMutex, teMutex, inflight, rst, rm, jes, reason, calls, jobState,
                   jobFailReason, jobExited, jobExitcode, untilBuried, pc,
                   reservedByMe, cwdMatters, tmpDir, mounted, unmounts, sigOn, sigs,
                   nsig, child, status, timeUp, tickerOn, tickC, memOn, memC,
                   ticker2On, tick2C, stopChecking, stopChecking2, stateMutex,
                   ranoutMem, ranoutTime, signalled, killCalled, killErr, closeErr,
                   readersClosed, peakmem, werr, exitcode, dobury, dorelease,
                   doarchive, failreason, myerr, berr, unmountErr, retryNum, waits,
                   worked, ret, behaviours, faults, killedBy, sigAfterEndT,
                   hasReserved, reserves, ourmem, cmerr, bpc, bret, backups, files,
                   mountErr, odpc, opens, remote, attempts, backoffs, odStatus,
                   dirContents>>

\* the listing delivers an error: with attempts left wait and list again,
\* otherwise return EIO
OpenDirObjectErr ==
    /\ odpc = "range"
    /\ objectCh' = <<>>
    /\ IF attempts < MaxAttempts
         THEN /\ backoffs' = backoffs + 1
              /\ odpc' = "attempt"
              /\ UNCHANGED odStatus
         ELSE /\ odStatus' = "EIO"
              /\ odpc' = "idle"
              /\ UNCHANGED backoffs
    /\ UNCHANGED <<reqMutex, teMutex, inflight, rst, rm, jes, reason, calls, jobState,
                   jobFailReason, jobExited, jobExitcode, untilBuried, pc,
                   reservedByMe, cwdMatters, tmpDir, mounted, unmounts, sigOn, sigs,
                   nsig, child, status, timeUp, tickerOn, tickC, memOn, memC,
                   ticker2On, tick2C, stopChecking, stopChecking2, stateMutex,
                   ranoutMem, ranoutTime, signalled, killCalled, killErr, closeErr,
                   readersClosed, peakmem, werr, exitcode, dobury, dorelease,
                   doarchive, failreason, myerr, berr, unmountErr, retryNum, waits,
                   worked, ret, behaviours, faults, killedBy, sigAfterEndT,
                   hasReserved, reserves, ourmem, cmerr, bpc, bret, backups, files,
                   mountErr, opens, remote, attempts, entries, isDir, dirContents,
                   fsFiles, fsDirs>>

\* the listing ends: cache and return the entries of a directory, or ENOENT
OpenDirListed ==
    /\ odpc = "range"
    /\ objectCh = <<>>
    /\ IF isDir
         THEN /\ odStatus' = "OK"
              /\ fsDirs' = fsDirs \cup {""}
              /\ dirContents' = [cached |-> TRUE, entries |-> entries]
              /\ UNCHANGED entries
         ELSE /\ odStatus' = "ENOENT"
              /\ entries' = <<>>
              /\ UNCHANGED <<fsDirs, dirContents>>
    /\ odpc' = "idle"
    /\ UNCHANGED <<reqMutex, teMutex, inflight, rst, rm, jes, reason, calls, jobState,
                   jobFailReason, jobExited, jobExitcode, untilBuried, pc,
                   reservedByMe, cwdMatters, tmpDir, mounted, unmounts, sigOn, sigs,
                   nsig, child, status, timeUp, tickerOn, tickC, memOn, memC,
                   ticker2On, tick2C, stopChecking, stopChecking2, stateMutex,
                   ranoutMem, ranoutTime, signalled, killCalled, killErr, closeErr,
                   readersClosed, peakmem, werr, exitcode, dobury, dorelease,
                   doarchive, failreason, myerr, berr, unmountErr, retryNum, waits,
                   worked, ret, behaviours, faults, killedBy, sigAfterEndT,
                   hasReserved, reserves, ourmem, cmerr, bpc, bret, backups, files,
                   mountErr, opens, remote, objectCh, attempts, backoffs, isDir,
                   fsFiles>>

\* ------------------------------------------------------------------------
\* Specifications
\* ------------------------------------------------------------------------

\* all but job.UntilBuried
InitBut ==
    /\ reqMutex = NoOne
    /\ teMutex = NoOne
    /\ inflight = <<>>
    /\ rst = [p \in Procs |-> "idle"]
    /\ rm = [p \in Procs |-> "none"]
    /\ jes = [p \in Procs |-> <<>>]
    /\ reason = [p \in Procs |-> ""]
    /\ calls = [p \in Callers |-> 0]
    /\ reserves = <<>>
    /\ bpc = "idle"
    /\ bret = "none"
    /\ backups = 0
    /\ files = [f \in BackupFiles |-> NoFile]
    /\ odpc = "idle"
    /\ opens = 0
    /\ remote = <<>>
    /\ objectCh = <<>>
    /\ attempts = 0
    /\ backoffs = 0
    /\ entries = <<>>
    /\ isDir = FALSE
    /\ odStatus = "none"
    /\ dirContents = NotCached
    /\ fsFiles = {}
    /\ fsDirs = {}
    /\ jobState = "reserved"
    /\ jobFailReason = ""
    /\ jobExited = FALSE
    /\ jobExitcode = 0
    /\ pc = [p \in ExecProcs |-> IF p = "main" THEN "begin" ELSE "off"]
    /\ reservedByMe \in BOOLEAN
    /\ hasReserved = reservedByMe
    /\ cwdMatters \in BOOLEAN
    /\ tmpDir = "none"
    /\ mounted = FALSE
    /\ mountErr = "nil"
    /\ unmounts = <<>>
    /\ sigOn = FALSE
    /\ sigs = 0
    /\ nsig = 0
    /\ child = "none"
    /\ status = 0
    /\ timeUp = FALSE
    /\ tickerOn = FALSE
    /\ tickC = FALSE
    /\ memOn = FALSE
    /\ memC = FALSE
    /\ ticker2On = FALSE
    /\ tick2C = FALSE
    /\ stopChecking = FALSE
    /\ stopChecking2 = FALSE
    /\ stateMutex = NoOne
    /\ ranoutMem = FALSE
    /\ ranoutTime = FALSE
    /\ signalled = FALSE
    /\ killCalled = FALSE
    /\ killErr = FALSE
    /\ closeErr = FALSE
    /\ readersClosed = FALSE
    /\ peakmem = 0
    /\ ourmem = 0
    /\ cmerr = FALSE
    /\ werr = "nil"
    /\ exitcode = 0
    /\ dobury = FALSE
    /\ dorelease = FALSE
    /\ doarchive = FALSE
    /\ failreason = ""
    /\ myerr = FALSE
    /\ berr = FALSE
    /\ unmountErr = "nil"
    /\ retryNum = 0
    /\ waits = <<>>
    /\ worked = FALSE
    /\ ret = "none"
    /\ behaviours = <<>>
    /\ faults = 0
    /\ killedBy = "none"
    /\ sigAfterEndT = FALSE

Init == InitBut /\ untilBuried \in 1..MaxUntilBuried

\* one Execute: its three goroutines and its environment
Next ==
    \/ \E p \in ExecProcs : Ended(p) \/ LockTE(p) \/ SendReq(p) \/ SendFails(p) \/ RecvReply(p)
    \/ ExecuteReserved \/ ExecuteStatCwd \/ ExecuteMkHashedDir
    \/ ExecuteMount \/ ExecuteMountAgain
    \/ ExecuteEnv \/ ExecuteNotify
    \/ ExecuteStart
    \/ ExecuteCallStarted \/ ExecuteStartedFailed
    \/ ExecuteSpawn \/ ExecutePipes \/ ExecuteWait
    \/ ExecuteClassify
    \/ ExecuteUnmount
    \/ ExecuteReport \/ ExecuteGiveUp
    \/ SupSignal \/ SupSignalLatch \/ SupClose
    \/ SupTick \/ SupKillCalledLatch
    \/ SupMemTick \/ SupStop
    \/ T2Signal \/ T2Tick \/ T2Stop
    \/ ChildExits \/ SignalArrives \/ TimePasses

Spec == Init /\ [][Next]_vars

\* several goroutines calling methods of one Client
NextClient ==
    \E p \in Callers :
        CallerCall(p) \/ Ended(p) \/ LockTE(p) \/ SendReq(p) \/ SendFails(p) \/ RecvReply(p)

SpecClient == Init /\ [][NextClient]_vars

\* a new Client on which Reserve and ReserveScheduled are called one after
\* the other
InitReserve == Init /\ ~hasReserved

NextReserve == Reserve \/ ReserveScheduled

SpecReserve == InitReserve /\ [][NextReserve]_vars

\* several goroutines calling methods of one Client for a job that has more
\* than one retry left
InitRelease == InitBut /\ untilBuried \in 1..MaxRetriesLeft

SpecRelease == InitRelease /\ [][NextClient]_vars

\* BackupDB called several times, one call after the other
NextBackup ==
    BackupDB \/ BackupReply \/ BackupWriteFile \/ BackupRemove \/ BackupRename

SpecBackup == Init /\ [][NextBackup]_vars

\* the steps of the main goroutine of Execute
NextMain ==
    \/ ExecuteReserved \/ ExecuteStatCwd \/ ExecuteMkHashedDir
    \/ ExecuteMount \/ ExecuteMountAgain
    \/ ExecuteEnv \/ ExecuteNotify
    \/ ExecuteStart
    \/ ExecuteCallStarted \/ ExecuteStartedFailed
    \/ ExecuteSpawn \/ ExecutePipes \/ ExecuteWait
    \/ ExecuteClassify
    \/ ExecuteUnmount
    \/ ExecuteReport \/ ExecuteGiveUp

\* the steps of a call of p into the Client that do not fail
RequestReturns(p) == Ended(p) \/ LockTE(p) \/ SendReq(p) \/ RecvReply(p)

\* one Execute whose time limit does not pass while the child runs
NextLive ==
    \/ \E p \in ExecProcs : Ended(p) \/ LockTE(p) \/ SendReq(p) \/ SendFails(p) \/ RecvReply(p)
    \/ NextMain
    \/ SupSignal \/ SupSignalLatch \/ SupClose
    \/ SupTick \/ SupKillCalledLatch
    \/ SupMemTick \/ SupStop
    \/ T2Signal \/ T2Tick \/ T2Stop
    \/ ChildExits \/ SignalArrives

\* that Execute when the main goroutine goes on whenever it can, and every
\* request that can be sent is sent and gets its reply
SpecLive ==
    /\ Init
    /\ [][NextLive]_vars
    /\ WF_vars(NextMain)
    /\ \A p \in ExecProcs : WF_vars(RequestReturns(p))

\* openDir called on one MinFys, one call after the other
NextOpenDir ==
    OpenDirCall \/ OpenDirList \/ OpenDirObject \/ OpenDirObjectErr \/ OpenDirListed

SpecOpenDir == Init /\ [][NextOpenDir]_vars

\* ------------------------------------------------------------------------
\* Properties
\* ------------------------------------------------------------------------

\* p has sent a request of method m and has not yet received its reply
Outstanding(p, m) == rst[p] = "sent" /\ rm[p] = m

TouchOutstanding == \E p \in Procs : Outstanding(p, "jtouch")

EndStateOutstanding == \E p \in Procs : \E m \in EndStateMethods : Outstanding(p, m)

\* C1: a Touch request and an Archive, Release or Bury request of the same
\* Client are never outstanding together: between the send of one and the
\* receipt of its reply the other is not sent.
C1_TouchNeverOverlapsEndState == ~(TouchOutstanding /\ EndStateOutstanding)

\* the main goroutine's end-state request is outstanding while a ticker
\* goroutine is inside Touch, waiting for teMutex
C1_Witness ==
    /\ \E m \in EndStateMethods : Outstanding("main", m)
    /\ \E p \in {"sup", "t2"} : rst[p] = "wantTE" /\ rm[p] = "jtouch"

\* C2: with any number of callers at most one request is outstanding, and
\* the caller that is about to receive is the one whose request is the only
\* one on the socket, so the reply it takes answers its own request.
C2_OneOutstandingRequest ==
    /\ Len(inflight) <= 1
    /\ \A p \in Procs :
         rst[p] = "sent" => inflight = <<[from |-> p, m |-> rm[p]]>>

\* one caller waits for its reply while another is inside request(), waiting
\* for the lock
C2_Witness ==
    \E p, q \in Callers :
        /\ p # q
        /\ rst[p] = "sent"
        /\ rst[q] = "wantReq"
        /\ inflight = <<[from |-> p, m |-> rm[p]]>>

\* C3: once the final Bury, Release or Archive of Execute has succeeded, no
\* Touch request of a goroutine of that Execute is on the wire.
C3_NoTouchAfterEndState ==
    worked => \A p \in {"sup", "t2"} : ~Outstanding(p, "jtouch")

\* Execute has classified the outcome (and holds stateMutex, so the flags
\* no longer change) and has not yet run behaviours and Unmount
Classified == pc["main"] = "killErr"

\* an attempt of the retry loop is under way: the final-state report
Reporting == pc["main"] = "reporting"

\* the disposition and the failreason Execute has decided on
Decision == <<Method(dobury, dorelease, doarchive), failreason>>

\* cmd.Wait() reported the exit status c
ExitedWith(c) == werr # "other" /\ status = c

\* the table of the claim, first match wins
PrecedenceTable(we, st, rMem, rTime, sig, kc) ==
    IF we # "other" /\ st = 126 THEN <<"jbury", FailReasonCPerm>>
    ELSE IF we # "other" /\ st = 127 THEN <<"jbury", FailReasonCFound>>
    ELSE IF we # "other" /\ st = 128 THEN <<"jbury", FailReasonCExit>>
    ELSE IF rMem THEN <<"jrelease", FailReasonRAM>>
    ELSE IF sig /\ rTime THEN <<"jrelease", FailReasonTime>>
    ELSE IF sig THEN <<"jrelease", FailReasonSignal>>
    ELSE IF kc THEN <<"jbury", FailReasonKilled>>
    ELSE IF we = "exit" THEN <<"jrelease", FailReasonExit>>
    ELSE IF we = "other" THEN <<"jrelease", FailReasonAbnormal>>
    ELSE <<"jarchive", "">>

\* the table with its last two rows moved to the top: exit 0 and a wait
\* error without exit status are decided before any flag is looked at
PrecedenceTableAmended(we, st, rMem, rTime, sig, kc) ==
    IF we = "nil" THEN <<"jarchive", "">>
    ELSE IF we = "other" THEN <<"jrelease", FailReasonAbnormal>>
    ELSE IF st = 126 THEN <<"jbury", FailReasonCPerm>>
    ELSE IF st = 127 THEN <<"jbury", FailReasonCFound>>
    ELSE IF st = 128 THEN <<"jbury", FailReasonCExit>>
    ELSE IF rMem THEN <<"jrelease", FailReasonRAM>>
    ELSE IF sig /\ rTime THEN <<"jrelease", FailReasonTime>>
    ELSE IF sig THEN <<"jrelease", FailReasonSignal>>
    ELSE IF kc THEN <<"jbury", FailReasonKilled>>
    ELSE <<"jrelease", FailReasonExit>>

\* C4 as stated: the classification is what the precedence table gives,
\* first match wins, for every exit status and every value of the flags.
C4_PrecedenceTable ==
    Classified =>
        Decision = PrecedenceTable(werr, status, ranoutMem, ranoutTime,
                                   signalled, killCalled)

\* C4 amended: the classification is what the table gives when exit 0
\* (archive) and a wait error without exit status (release, abnormal) come
\* first; the flags decide only for a non-zero exit other than 126, 127, 128.
C4_PrecedenceTableAmended ==
    Classified =>
        Decision = PrecedenceTableAmended(werr, status, ranoutMem, ranoutTime,
                                          signalled, killCalled)

\* the child had exited 0 when the signal was handled: signalled is latched
\* and the job is archived
C4_Witness ==
    /\ Classified
    /\ ExitedWith(0)
    /\ signalled
    /\ Decision = <<"jarchive", "">>

\* the FailReason that belongs to exit codes 126, 127, 128
PermanentReason(c) ==
    CASE c = 126 -> FailReasonCPerm
      [] c = 127 -> FailReasonCFound
      [] c = 128 -> FailReasonCExit

\* C5: when the child exited with 126, 127 or 128 the final-state report is
\* Bury with FailReason cperm, cfound or cexit and that exit code, whatever
\* the flags are and whatever TriggerBehaviours and Unmount returned.
C5_PermanentExitCodesBury ==
    \A c \in {126, 127, 128} :
        (Reporting /\ werr = "exit" /\ status = c) =>
            /\ rm["main"] = "jbury"
            /\ reason["main"] = PermanentReason(c)
            /\ jes["main"] = <<c>>

\* exit 126, a signal was handled, the upload of files failed, and Bury with
\* cperm is being reported
C5_Witness ==
    /\ Reporting
    /\ werr = "exit" /\ status = 126
    /\ signalled
    /\ unmountErr = "upload"
    /\ rm["main"] = "jbury"

\* C6 as stated: when the child exited 0 the final-state report is Archive.
C6_ExitZeroArchives ==
    (Reporting /\ ExitedWith(0)) => rm["main"] = "jarchive"

\* C6 amended: when the child exited 0 the final-state report is Archive with
\* exit code 0, unless Unmount failed to upload files: then it is Release with
\* FailReason upload and exit code -2.
C6_ExitZeroArchivesUnlessUpload ==
    (Reporting /\ ExitedWith(0)) =>
        IF unmountErr = "upload"
          THEN /\ rm["main"] = "jrelease"
               /\ reason["main"] = FailReasonUpload
               /\ jes["main"] = <<UploadExitcode>>
          ELSE /\ rm["main"] = "jarchive"
               /\ jes["main"] = <<0>>

\* exit 0 and an Unmount error that is no upload failure: Archive is reported
C6_Witness ==
    /\ Reporting
    /\ ExitedWith(0)
    /\ unmountErr = "other"
    /\ rm["main"] = "jarchive"

\* C7 as stated: once the memory ticker has seen a sample above
\* Requirements.RAM (the supervisory goroutine has not handled a signal then,
\* and returns, so it handles none later) the disposition is release with
\* FailReason RAM.
C7_RAMOvershootReleasesRAM ==
    (Classified /\ ranoutMem /\ werr # "other") =>
        Decision = <<"jrelease", FailReasonRAM>>

\* C7 amended: after such an overshoot the disposition is never release with
\* FailReason signal or time; it is release with FailReason RAM when Wait
\* reports a non-zero exit status other than 126, 127, 128, as it does when the
\* kill of the memory ticker ended the child. A child that had already exited
\* with 0 or 126, 127, 128 is archived or buried as without the overshoot.
C7_RAMOvershootNeverSignal ==
    (Classified /\ ranoutMem) =>
        /\ failreason \notin {FailReasonSignal, FailReasonTime}
        /\ (werr = "exit" /\ status \notin {126, 127, 128}) =>
               Decision = <<"jrelease", FailReasonRAM>>
        /\ (werr = "exit" /\ killedBy = "mem") =>
               Decision = <<"jrelease", FailReasonRAM>>
        /\ ~signalled

\* the memory ticker's kill ended the child, a signal arrived afterwards and
\* waits in the channel, and the decision is release with FailReason RAM
C7_Witness ==
    /\ Classified
    /\ killedBy = "mem"
    /\ sigs > 0
    /\ Decision = <<"jrelease", FailReasonRAM>>

\* C8: when endT had passed while the child was running, a signal arrived
\* after that, and its handler killed the child and latched signalled before
\* the classification, the disposition is release with FailReason time.
C8_OverrunThenSignalReleasesTime ==
    (Classified /\ werr = "exit" /\ killedBy = "signal" /\ sigAfterEndT /\ signalled) =>
        Decision = <<"jrelease", FailReasonTime>>

\* C9: when the handler of a signal killed the running child and endT had not
\* passed, the disposition is release with FailReason signal.
C9_SignalReleasesSignal ==
    (Classified /\ werr = "exit" /\ killedBy = "signal" /\ ~timeUp) =>
        Decision = <<"jrelease", FailReasonSignal>>

\* C10: when a Touch of the supervisory goroutine returned the kill request
\* and its kill ended the running child, the final-state report is Bury with
\* FailReason killed by user.
C10_KillRequestBuries ==
    (Reporting /\ werr = "exit" /\ killedBy = "touch") =>
        /\ rm["main"] = "jbury"
        /\ reason["main"] = FailReasonKilled

\* a step in which the running child is ended by SIGKILL
KilledNow == child = "running" /\ child' = "exited" /\ status' = KilledStatus

\* what precedes each kill of Execute: a signal taken from sigs, a Touch that
\* returned the kill request, a new memory peak above Requirements.RAM, or
\* the failure of Started
KillCause ==
    \/ pc["sup"] = "select" /\ pc'["sup"] = "sigLatch" /\ sigs > 0 /\ sigs' = sigs - 1
    \/ pc["sup"] = "touch" /\ pc'["sup"] = "kcLatch"
    \/ pc["sup"] = "select" /\ peakmem' > peakmem /\ peakmem' > RequirementsRAM
    \/ pc["main"] = "startedFailed" /\ pc'["main"] = "returned"

\* C11: Execute never kills the child because endT has passed: every step
\* that kills the running child is the signal case, the kill request of a
\* Touch, a memory sample above Requirements.RAM or the failure of Started,
\* and a child that ended with none of these ended by itself.
C11_KillsHaveCause ==
    /\ [][KilledNow => KillCause]_vars
    /\ [](child \in {"exited", "reaped"} /\ killedBy = "none" => status \in ExitCodes)

\* endT passed while the child ran, the supervisor saw it on a tick, and the
\* child ended by itself and was waited for
C11_Witness ==
    /\ timeUp
    /\ ranoutTime
    /\ child = "reaped"
    /\ killedBy = "none"
    /\ status \in ExitCodes

\* C12: for a job this client did not reserve, Execute returns ErrMustReserve
\* at once: no request is made, nothing is mounted, no directory is made, no
\* child is started, no signal handler is installed, and no field of the job
\* is changed.
C12_MustReserveFirst ==
    ~reservedByMe =>
        /\ pc["main"] \in {"begin", "returned"}
        /\ pc["main"] = "returned" => ret = "ErrMustReserve"
        /\ \A p \in ExecProcs : rst[p] = "idle" /\ rm[p] = "none"
        /\ inflight = <<>>
        /\ reqMutex = NoOne /\ teMutex = NoOne /\ stateMutex = NoOne
        /\ ~mounted /\ unmounts = <<>> /\ tmpDir = "none"
        /\ child = "none" /\ pc["sup"] = "off" /\ pc["t2"] = "off"
        /\ ~sigOn /\ nsig = 0
        /\ behaviours = <<>>
        /\ jobState = "reserved" /\ jobFailReason = "" /\ ~jobExited
        /\ jobExitcode = 0 /\ untilBuried \in 1..MaxUntilBuried

\* Execute has returned for a job that another client reserved
C12_Witness ==
    /\ ~reservedByMe
    /\ pc["main"] = "returned"
    /\ ret = "ErrMustReserve"

Returned == pc["main"] = "returned"

FinalStates == {"complete", "buried", "delayed"}

C14_NilIffArchived ==
    Returned =>
        /\ ret = "nil" =>
             /\ child = "reaped" /\ werr = "nil" /\ status = 0
             /\ worked /\ doarchive /\ jobState = "complete"
        /\ (ret \in {"error", "rerun"} /\ child # "none") => jobState # "complete"

\* the attempts of the final report made so far: one for each failed one,
\* and the one under way or the one that worked
Attempts == retryNum + (IF Reporting \/ worked THEN 1 ELSE 0)

\* C15: the final report is attempted at most maxRetries times; there is no
\* attempt after the first that worked; the wait after the failed attempt
\* number k (from 0) is k * 100 ms, so the waits never decrease.
C15_BoundedRetriesLinearBackoff ==
    /\ Attempts <= maxRetries
    /\ worked => Returned /\ rst["main"] = "idle"
    /\ Len(waits) = retryNum
    /\ \A k \in 0..(Len(waits) - 1) : waits[k + 1] = k * 100
    /\ \A i, j \in 1..Len(waits) : i <= j => waits[i] <= waits[j]

\* the first attempt failed, the wait after it was 0 ms, and the second
\* attempt worked
C15_Witness ==
    /\ worked
    /\ waits = <<0>>

\* C16: when every attempt of the final report failed, Execute triggers the
\* failure behaviours a second time and returns the error that the job must
\* be rerun, not nil and not the error of the classification; the State of
\* the job is not changed.
C16_GiveUpAfterAllRetries ==
    /\ (Returned /\ retryNum > 0 /\ ~worked) =>
          /\ ret = "rerun"
          /\ retryNum = maxRetries
          /\ Len(behaviours) = 2
          /\ behaviours[2] = FALSE
          /\ jobState = "reserved"
    /\ ret = "rerun" => Returned /\ retryNum = maxRetries /\ ~worked

\* all attempts failed and Execute returned the rerun error
C16_Witness ==
    /\ Returned
    /\ ret = "rerun"
    /\ Len(waits) = maxRetries

\* C17 as stated: over any sequence of Reserve and ReserveScheduled calls on
\* one Client, the request carries FirstReserve = true on the first call that
\* returned a job and on no other call.
C17_FirstReserveOnFirstSuccess ==
    \A i \in 1..Len(reserves) :
        reserves[i].fr <=>
            /\ reserves[i].out = "job"
            /\ \A j \in 1..(i - 1) : reserves[j].out # "job"

\* C17, amended: the request carries FirstReserve = true on the first call of
\* Reserve or ReserveScheduled made on the Client, whether that call returns
\* a job, times out or fails, and false on every later call.
C17_FirstReserveOnFirstCall ==
    /\ \A i \in 1..Len(reserves) : reserves[i].fr <=> i = 1
    /\ hasReserved <=> reserves # <<>>

\* the first call failed and a later call returned a job
C17_Witness ==
    /\ Len(reserves) >= 2
    /\ reserves[1].out = "error"
    /\ reserves[Len(reserves)].out = "job"
    /\ reserves[Len(reserves)].group = "g"

\* the step of Execute that sets peakmem to what it reports as PeakRAM
PeakReported == pc["main"] = "stop" /\ pc'["main"] = "killErr"

\* from there to the return of Execute the JobEndState is built and sent
PeakInUse == pc["main"] \in {"killErr", "report", "reporting"}

\* C18 as stated: the PeakRAM Execute reports is at least the highest memory
\* sample of the child that the memory ticker recorded, and at least 10 MB,
\* whatever the probe of this process's own memory returns.
C18_PeakAtLeastSamplesAndFloor ==
    [][PeakReported => peakmem' >= peakmem /\ peakmem' >= OurMemFloor]_vars

\* C18, amended: the PeakRAM Execute reports is the highest recorded sample
\* of the child (ru.Maxrss when none was above 0) plus this process's own
\* memory, which is what the probe returned, or 10 MB when the probe failed;
\* so it is at least every recorded sample, and at least 10 MB when the probe
\* failed. It does not change until Execute returns.
C18_PeakIsSamplesPlusOurs ==
    [][/\ PeakReported =>
            /\ peakmem' >= peakmem + ourmem'
            /\ peakmem > 0 => peakmem' = peakmem + ourmem'
            /\ ourmem' >= 0
            /\ cmerr' => ourmem' = OurMemFloor /\ peakmem' >= OurMemFloor
       /\ PeakInUse /\ pc'["main"] # "returned" => peakmem' = peakmem]_vars

\* the memory ticker recorded a sample, the probe of this process's memory
\* returned less than 10 MB, and Execute is reporting a PeakRAM under 10 MB
C18_Witness ==
    /\ Reporting
    /\ ranoutMem
    /\ ~cmerr
    /\ peakmem < OurMemFloor
    /\ peakmem > ourmem

\* the step in which the request `method` of p returns without an error to a
\* caller of SpecRelease (a failed request of a caller counts in faults)
Worked(p, method) ==
    /\ rst[p] = "sent"
    /\ rm[p] = method
    /\ rst'[p] = "idle"
    /\ faults' = faults

Unmounted == pc["main"] = "killErr" /\ pc'["main"] = "report"

\* C21: when Unmount's error contains "failed to upload", archive becomes
\* release and bury stays bury, the FailReason becomes the upload one only
\* when none was set, and an Exitcode of 0 becomes -2; any other result of
\* Unmount changes none of the three.
C21_UploadFailureHandling ==
    [][Unmounted =>
         IF unmountErr' = "upload"
           THEN /\ dobury' = dobury
                /\ Method(dobury', dorelease', doarchive') =
                     (IF dobury THEN "jbury" ELSE "jrelease")
                /\ failreason' = IF failreason = "" THEN FailReasonUpload ELSE failreason
                /\ exitcode' = IF exitcode = 0 THEN -2 ELSE exitcode
           ELSE /\ <<dobury', dorelease', doarchive'>> = <<dobury, dorelease, doarchive>>
                /\ failreason' = failreason
                /\ exitcode' = exitcode]_vars

\* the upload failed for a job whose command could not be run (exit 126):
\* the report is still Bury, with the reason and exit code of the
\* classification
C21_Witness ==
    /\ Reporting
    /\ unmountErr = "upload"
    /\ rm["main"] = "jbury"
    /\ reason["main"] = FailReasonCPerm
    /\ jes["main"] = <<126>>

\* C22: when a Kill of the supervisory goroutine ended the child, for a kill
\* request, a memory sample above Requirements.RAM or a signal, ticker2's
\* goroutine is in no Touch while the behaviours are triggered and the job is
\* unmounted.
C22_NoTouch2AfterSupervisorKill ==
    (Classified /\ killedBy \in {"touch", "mem", "signal"}) => rst["t2"] = "idle"

\* where Execute is before signal.Notify, the returns from there included
BeforeNotify ==
    pc["main"] \in {"begin", "cwd", "mkdir", "mount", "mount2", "env", "notify",
                    "buried", "envBuried"}

\* C23: when Execute has returned the signals are not subscribed, whichever
\* return it took; and before signal.Notify, the returns from there
\* included, they never were.
C23_SignalsScopedToExecute ==
    /\ Returned => ~sigOn
    /\ BeforeNotify => ~sigOn /\ nsig = 0
    /\ (Returned /\ ret = "ErrMustReserve") => nsig = 0

\* Execute returned after a signal was delivered to its subscription
C23_Witness ==
    /\ Returned
    /\ nsig > 0
    /\ ~sigOn

\* C24: when Execute has returned, a tmp directory that mkHashedDir made for
\* the job has been removed (its removal was attempted), whichever return
\* Execute took.
C24_TmpDirRemovedOnReturn == Returned => tmpDir # "made"

\* C25: BackupDB writes the bytes it received to path.tmp and only then
\* renames that file onto path: path changes only by taking the whole file
\* of path.tmp; when the write fails path is as it was and the removal of
\* path.tmp is attempted before BackupDB returns; when the request fails no
\* file is written; and path never holds part of a backup.
C25_BackupWrittenThenRenamed ==
    /\ [](files[BackupPath].whole)
    /\ [][/\ files'[BackupPath] # files[BackupPath] =>
               /\ bpc = "rename"
               /\ files["db.tmp"] = [v |-> backups, whole |-> TRUE]
               /\ files'[BackupPath] = files["db.tmp"]
               /\ files'["db.tmp"] = NoFile
          /\ files'["db.tmp"] # files["db.tmp"] => bpc \in {"write", "remove", "rename"}
          /\ bpc = "request" => files' = files
          /\ (bpc' = "idle" /\ bpc # "idle" /\ bret' = "write") => bpc = "remove"
          /\ bpc' = "remove" => bpc = "write" /\ files'[BackupPath] = files[BackupPath]]_vars

\* an earlier backup is at path, a later call of BackupDB left part of its
\* bytes in path.tmp, could not remove that file, and returned the error
C25_Witness ==
    /\ bpc = "idle"
    /\ bret = "write"
    /\ files[BackupPath].v > 0
    /\ files["db.tmp"] = [v |-> backups, whole |-> FALSE]

\* C26: job.Mount() is called at most twice in one Execute, the second time
\* only after the first returned the error of fusermount's exit code 256;
\* when the last call failed the job is buried with the FailReason of
\* mounting, by one Bury, no child is started, and Execute returns an error.
C26_MountAtMostTwice ==
    /\ [][/\ pc'["main"] = "mount" => pc["main"] \in {"cwd", "mkdir", "mount"}
          /\ pc'["main"] = "mount2" =>
                pc["main"] = "mount2" \/ (pc["main"] = "mount" /\ mountErr' = "fuse256")
          /\ (pc["main"] = "mount2" /\ pc'["main"] # "mount2") =>
                pc'["main"] = (IF mountErr' = "nil" THEN "env" ELSE "buried")
          /\ (pc["main"] \in {"mount", "mount2"} /\ pc'["main"] = "buried") =>
                /\ mountErr' # "nil" /\ ~mounted'
                /\ rm'["main"] = "jbury" /\ reason'["main"] = FailReasonMount
          /\ (pc["main"] = "buried" /\ pc'["main"] # "buried") =>
                pc'["main"] = "returned" /\ ret' = "error"]_vars
    /\ [](mountErr # "nil" =>
             /\ pc["main"] \in {"mount2", "buried", "returned"}
             /\ child = "none" /\ ~mounted /\ retryNum = 0)

\* the first Mount failed with the error of exit code 256, the second failed
\* too, the Bury of the job worked, and Execute has returned
C26_Witness ==
    /\ Returned
    /\ mountErr = "fuse256"
    /\ jobState = "buried"
    /\ jobFailReason = FailReasonMount
    /\ child = "none"

\* C27: when Started failed after the child was started, Execute kills the
\* child, calls TriggerBehaviours(false), unmounts and returns an error; the
\* supervisory goroutine is not started and no Bury, Release or Archive is
\* requested.
C27_StartedFailureBailsOut ==
    /\ [][(pc["main"] = "startedFailed" /\ pc'["main"] # "startedFailed") =>
             /\ pc'["main"] = "returned"
             /\ ret' = "error"
             /\ child' = "exited"
             /\ child = "running" => status' = KilledStatus
             /\ behaviours' = <<FALSE>>
             /\ unmounts' = <<TRUE>>
             /\ pc'["sup"] = "off" /\ pc'["t2"] = "off"
             /\ rst' = rst /\ rm' = rm /\ inflight' = inflight]_vars
    /\ [](pc["main"] = "startedFailed" =>
             /\ child \in {"running", "exited"}
             /\ pc["sup"] = "off"
             /\ rst["main"] = "idle"
             /\ inflight = <<>>
             /\ jobState = "reserved")
    /\ [](Returned /\ child # "none" /\ pc["sup"] = "off" =>
             /\ jobState = "reserved" /\ ~worked /\ retryNum = 0
             /\ rst["main"] = "idle" /\ inflight = <<>>)

\* Started failed, the running child was killed, and Execute has returned
C27_Witness ==
    /\ Returned
    /\ killedBy = "started"
    /\ behaviours = <<FALSE>>
    /\ unmounts = <<TRUE>>

\* the step in which a Touch of the supervisory goroutine returns an error
SupTouchFailed ==
    /\ pc["sup"] = "touch"
    /\ rst["sup"] # "idle"
    /\ rst'["sup"] = "idle"
    /\ faults' = faults + 1

\* C28: a Touch of the supervisory goroutine that returns an error neither
\* kills the child nor ends the goroutine: it selects again, and there a
\* tick of either ticker and a signal in sigs are served.
C28_FailedTouchKeepsSupervising ==
    /\ [][SupTouchFailed =>
             /\ pc'["sup"] = "select"
             /\ <<child, status, killedBy, killErr, killCalled>>' =
                  <<child, status, killedBy, killErr, killCalled>>
             /\ readersClosed' = readersClosed]_vars
    /\ [](pc["sup"] = "select" /\ stateMutex = NoOne =>
             /\ tickerOn => ENABLED SupTick
             /\ memOn => ENABLED SupMemTick
             /\ sigs > 0 => ENABLED SupSignal)

\* a Touch of the supervisory goroutine failed, the child is still running,
\* and the goroutine is in its next Touch
C28_Witness ==
    /\ child = "running"
    /\ faults = 1
    /\ pc["sup"] = "touch"
    /\ rst["sup"] = "sent"

Flags == <<killCalled, ranoutMem, ranoutTime, signalled>>

\* C30: the supervisory goroutine writes killCalled, ranoutMem, ranoutTime
\* and signalled only when stateMutex is free for it; the main goroutine
\* holds stateMutex from the classification until Execute returns; so no
\* flag changes between the classification and the return.
C30_FlagsFrozenAfterClassification ==
    /\ [][/\ Flags' # Flags => stateMutex = NoOne /\ stateMutex' = NoOne
          /\ stateMutex = "main" => Flags' = Flags
          /\ stateMutex' = "main" => pc'["main"] \in {"killErr", "report", "reporting"}
          /\ (stateMutex = "main" /\ stateMutex' # "main") => pc'["main"] = "returned"]_vars
    /\ [](pc["main"] \in {"killErr", "report", "reporting"} => stateMutex = "main")

\* the handler of a signal killed the child and waits for stateMutex, which
\* the main goroutine holds while it reports; signalled is not set
C30_Witness ==
    /\ Reporting
    /\ stateMutex = "main"
    /\ pc["sup"] = "sigLatch"
    /\ ~signalled

\* main is in the retry loop: between two attempts or inside one
InRetryLoop == pc["main"] \in {"report", "reporting"}

\* C31: every attempt of the retry loop of one Execute calls the one
\* operation the disposition chooses, Bury when bury is set (also when
\* release is set with it), else Release when release is set, else Archive;
\* the disposition does not change between the attempts, so no two attempts
\* of one Execute call different operations.
C31_OneOperationPerExecute ==
    [][/\ (InRetryLoop /\ InRetryLoop') =>
              /\ dobury' = dobury
              /\ dorelease' = dorelease
              /\ doarchive' = doarchive
       /\ Reporting' =>
              /\ rm'["main"] \in EndStateMethods
              /\ dobury' => rm'["main"] = "jbury"
              /\ (~dobury' /\ dorelease') => rm'["main"] = "jrelease"
              /\ (~dobury' /\ ~dorelease') => (doarchive' /\ rm'["main"] = "jarchive")]_vars

\* the second attempt of an Execute whose job a kill request ended: bury and
\* release are both set and Bury is the operation called again
C31_Witness ==
    /\ Reporting
    /\ retryNum = 1
    /\ dobury /\ dorelease
    /\ rm["main"] = "jbury"

\* where main is when it calls job.Unmount(true): after the Bury of an Env
\* failure, after the Release of a Start failure, after a Started failure
ForcedUnmountPoints == {"envBuried", "startReleased", "startedFailed"}

\* C32: when Execute has returned after a Mount that succeeded, Unmount was
\* called exactly once, and when Mount was not called or failed, never; the
\* one call is made where Mount had succeeded, forced after a failure of
\* Env, Start or Started and not forced after the child was waited for.
C32_UnmountOncePerMount ==
    /\ [](/\ Len(unmounts) <= 1
          /\ unmounts # <<>> => mounted
          /\ Returned => Len(unmounts) = (IF mounted THEN 1 ELSE 0))
    /\ [][unmounts' # unmounts =>
              /\ unmounts = <<>>
              /\ mounted
              /\ Len(unmounts') = 1
              /\ pc["main"] \in ForcedUnmountPoints \cup {"killErr"}
              /\ unmounts'[1] = (pc["main"] \in ForcedUnmountPoints)]_vars

\* Execute returned after Started failed: the mounts were unmounted once,
\* forced
C32_Witness ==
    /\ Returned
    /\ mounted
    /\ killedBy = "started"
    /\ unmounts = <<TRUE>>

\* the methods that take teMutex around their request
TEMethods == {"jtouch"} \cup EndStateMethods

\* the callers that are inside a method of the Client
Busy == {p \in Callers : rst[p] # "idle"}

\* C33: Touch, Archive, Release and Bury hold teMutex whenever they hold the
\* request lock, and a goroutine that is about to lock teMutex (in ended or
\* after it) holds neither lock; so whenever some caller is inside a method,
\* one of the callers inside a method can take its next step without any
\* request failing: no interleaving of the calls deadlocks.
C33_LockOrderNoDeadlock ==
    /\ \A p \in Callers :
          /\ (reqMutex = p /\ rm[p] \in TEMethods) => teMutex = p
          /\ rst[p] \in {"ended", "wantTE"} => (teMutex # p /\ reqMutex # p)
          /\ rst[p] = "idle" => (teMutex # p /\ reqMutex # p)
    /\ Busy # {} =>
          \E p \in Busy :
              ENABLED (Ended(p) \/ LockTE(p) \/ SendReq(p) \/ RecvReply(p))

\* a Touch holds both locks with its request on the wire while an Archive
\* with a JobEndState waits in ended() and a Bury waits for teMutex
C33_Witness ==
    \E p, q, r \in Callers :
        /\ rm[p] = "jtouch" /\ teMutex = p /\ reqMutex = p /\ rst[p] = "sent"
        /\ rm[q] = "jarchive" /\ rst[q] = "ended"
        /\ rm[r] = "jbury" /\ rst[r] = "wantTE"

\* the child has exited and both output filters have delivered their result:
\* main is at cmd.Wait()
ChildDone == pc["main"] = "wait" /\ child = "exited"

\* C34: once the child has exited and both output filters have delivered,
\* Execute returns in the end, when every request gets its reply and the
\* main goroutine is scheduled.
C34_ExecuteReturns == ChildDone ~> Returned

\* Execute returned though the supervisory goroutine had ended, with the
\* kill for memory, before main sent on stopChecking: what was sent is still
\* in the channel
C34_Witness ==
    /\ Returned
    /\ worked
    /\ killedBy = "mem"
    /\ pc["sup"] = "done"
    /\ stopChecking

\* the flags that record why the supervisory goroutine killed the child
KillFlags == <<ranoutMem, signalled, killCalled>>

\* C35: at most one of ranoutMem, signalled and killCalled is true in one
\* Execute, and a flag among ranoutMem, ranoutTime, signalled and killCalled
\* that is true stays true.
C35_OneKillFlagNeverReset ==
    /\ [](Cardinality({i \in 1..3 : KillFlags[i]}) <= 1)
    /\ [][\A i \in 1..4 : Flags[i] => Flags'[i]]_vars

\* the time ran out and was latched, then a signal was handled and latched:
\* two flags are true, one of them among the three of a kill
C35_Witness ==
    /\ ranoutTime
    /\ signalled
    /\ ~ranoutMem
    /\ ~killCalled
    /\ pc["sup"] = "done"

\* the Archive, Release or Bury that main called returns an error in this
\* step: the request could not be sent, or its reply was an error
EndStateFailed ==
    /\ rst["main"] \in {"wantReq", "sent"}
    /\ rm["main"] \in EndStateMethods
    /\ rst'["main"] = "idle"
    /\ faults' # faults \/ retryNum' # retryNum

\* C36: an Archive, Release or Bury of Execute whose request fails leaves
\* job.State and job.UntilBuried as they were; UntilBuried goes down only by
\* one and only in the attempt of the retry loop that works, after which
\* there is no other attempt: it goes down at most once in one Execute,
\* however many attempts failed before.
C36_FailedCallChangesNothing ==
    [][/\ EndStateFailed => (jobState' = jobState /\ untilBuried' = untilBuried)
       /\ untilBuried' # untilBuried =>
             /\ untilBuried' = untilBuried - 1
             /\ ~worked /\ worked'
       /\ worked => (worked' /\ untilBuried' = untilBuried /\ retryNum' = retryNum)]_vars

\* the first Release of the retry loop failed and the second worked: the job
\* lost one retry and is buried
C36_Witness ==
    /\ worked
    /\ waits = <<0>>
    /\ dorelease /\ ~dobury
    /\ untilBuried = MaxUntilBuried - 1
    /\ jobState = "buried"

\* goroutine p of Execute sends the request of a Touch in this step
TouchSent(p) ==
    /\ rm[p] = "jtouch"
    /\ rst[p] = "wantReq"
    /\ rst'[p] = "sent"

\* a Touch of ticker2's goroutine returns an error in this step
T2TouchFailed ==
    /\ pc["t2"] = "touch"
    /\ rst["t2"] # "idle"
    /\ rst'["t2"] = "idle"
    /\ faults' = faults + 1

\* ticker2's goroutine has returned while the behaviours and the unmount are
\* still to come: a Touch of it failed, or it received a signal
T2GoneEarly == pc["t2"] = "done" /\ Classified

\* C37 as stated: once ticker2's goroutine has returned after a failed Touch
\* or a signal, no Touch is sent by any goroutine of that Execute while the
\* behaviours are triggered and the job is unmounted.
C37_NoTouchAfterTicker2Ends ==
    [][T2GoneEarly => \A p \in ExecProcs : ~TouchSent(p)]_vars

\* C37, amended: a Touch of ticker2's goroutine that fails and a signal it
\* receives end the goroutine, which stays ended and sends no Touch from
\* then on; the only Touch sent after that while the behaviours are
\* triggered and the job is unmounted is one of the supervisory goroutine,
\* which has not yet taken the stop sent to it.
C37_Ticker2EndsOnFirstError ==
    /\ [][/\ T2TouchFailed => pc'["t2"] = "done"
          /\ (pc["t2"] = "select" /\ sigs' < sigs /\ pc'["sup"] = pc["sup"]) =>
                 pc'["t2"] = "done"
          /\ pc["t2"] = "done" => (pc'["t2"] = "done" /\ ~TouchSent("t2"))
          /\ T2GoneEarly =>
                 \A p \in ExecProcs :
                     TouchSent(p) => (p = "sup" /\ pc["sup"] = "touch")]_vars
    /\ [](pc["t2"] = "done" => rst["t2"] = "idle")

\* the first Touch of ticker2's goroutine failed and the goroutine has
\* returned, while main has not yet triggered the behaviours
C37_Witness ==
    /\ T2GoneEarly
    /\ faults = 1
    /\ sigs = 0 /\ nsig = 0
    /\ ~stopChecking2
    /\ rst["sup"] = "idle"
    /\ pc["sup"] = "done"
    /\ berr = FALSE /\ werr # "other"

\* caller q is in an Archive, Release or Bury with a JobEndState, after its
\* ended() has returned and before its request is sent
AfterEnded(q) ==
    /\ rm[q] \in EndStateMethods
    /\ jes[q] # <<>>
    /\ rst[q] \in {"wantTE", "wantReq"}

\* caller q is in an Archive, Release or Bury and holds teMutex for its
\* request
InEndStateRequest(q) ==
    /\ rm[q] \in EndStateMethods
    /\ rst[q] \in {"wantReq", "sent"}

\* C38 as stated: between the return of ended() and the sending of the
\* request of the same Archive, Release or Bury, no Touch request is sent.
C38_EndedAndRequestOneSection ==
    [][\A p, q \in Callers : AfterEnded(q) => ~TouchSent(p)]_vars

\* C38, amended: ended() updates the job only when no Touch holds teMutex,
\* and from the moment an Archive, Release or Bury has locked teMutex for
\* its request until the reply no Touch request is sent; between the two,
\* after ended() has returned and before teMutex is locked again, a Touch
\* can lock teMutex and send its request.
C38_EndedAndRequestTwoSections ==
    [][/\ (jobExited' # jobExited \/ jobExitcode' # jobExitcode) =>
             (teMutex = NoOne /\ teMutex' = NoOne)
       /\ \A p, q \in Callers : InEndStateRequest(q) => ~TouchSent(p)
       /\ \A p, q \in Callers :
             (AfterEnded(q) /\ TouchSent(p)) => (rst[q] = "wantTE" /\ teMutex = p)]_vars

\* an Archive with a JobEndState has returned from ended() and has not yet
\* locked teMutex again, and the request of a Touch is on the wire
C38_Witness ==
    \E p, q \in Callers :
        /\ rm[q] = "jarchive" /\ jes[q] # <<>> /\ rst[q] = "wantTE"
        /\ jobExited /\ jobExitcode = jes[q][1]
        /\ rm[p] = "jtouch" /\ rst[p] = "sent" /\ teMutex = p

\* where main is before it reads killErr and closeErr
BeforeErrRead == {"pipes", "wait", "stop", "killErr"}

\* C39: the supervisory goroutine writes killErr and closeErr only before
\* the main goroutine reads them, and an error of the kill or of the close
\* of a pipe is part of the error main composes from them.
C39_ErrorsWrittenBeforeRead ==
    [][/\ (killErr' # killErr \/ closeErr' # closeErr) => pc["main"] \in BeforeErrRead
       /\ (Unmounted /\ (killErr \/ closeErr)) => myerr']_vars

RECURSIVE Listed(_)
\* the entries of a listing, each object but the directory's own key once
Listed(r) ==
    IF r = <<>> THEN <<>>
    ELSE IF Head(r).self THEN Listed(Tail(r))
    ELSE <<DirEntry(Head(r))>> \o Listed(Tail(r))

\* the call of openDir has returned
OpenDirReturned == odpc = "idle" /\ opens > 0

\* C40: a call of openDir lists at most maxAttempts times, with one wait
\* before every listing after the first; when the last attempt fails it
\* returns EIO and the directory is not cached; and the entries returned
\* and cached after a listing that worked, retried or not, are the entries
\* of the directory, each once.
C40_OpenDirRetriesWithoutDuplicates ==
    /\ attempts <= MaxAttempts
    /\ odpc = "range" => backoffs = attempts - 1
    /\ OpenDirReturned =>
          /\ odStatus = "EIO" => (attempts = MaxAttempts /\ (opens = 1 => ~dirContents.cached))
          /\ odStatus = "OK" =>
                /\ entries = Listed(remote)
                /\ dirContents = [cached |-> TRUE, entries |-> Listed(remote)]

====
